---- MODULE Spec2Model ----
(***************************************************************************)
(* The three demo programs of the repository as one state machine:        *)
(*   "cube"   src/gl2_cube.cpp      single pass, glDrawArrays              *)
(*   "yuvtex" src/unnamed/part_001  offscreen pass + main pass sampling    *)
(*                                  the offscreen texture; synthetic YV12  *)
(*                                  buffer imported once at setup          *)
(*   "fbtex"  src/unnamed/part_000  offscreen pass + main pass sampling    *)
(*                                  the live framebuffer capture           *)
(* main() is cut into one action per setup stage and per loop statement;   *)
(* every action runs the whole function it calls.  The platform (EGL, GL,  *)
(* GraphicBuffer, the framebuffer device) is the environment: its results  *)
(* are the \E-bound inputs of the actions.                                 *)
(***************************************************************************)
EXTENDS Integers, Sequences, FiniteSets, TLC

(* ------------------------------------------------------------------ *)
(* Bounds of the model                                                 *)
(* ------------------------------------------------------------------ *)

\* frames rendered before Spec stops exploring the (endless) loop
MaxFrames == 2

\* error codes the GL/EGL error queue may hold at an error check
MaxErrs == 1

(* ------------------------------------------------------------------ *)
(* Program constants                                                   *)
(* ------------------------------------------------------------------ *)

Variants == {"cube", "yuvtex", "fbtex"}

\* the variants that render through a framebuffer object
FboVariants == {"yuvtex", "fbtex"}

FBO_WIDTH == 256

FBO_HEIGHT == 256

\* the 24 vertices in order with no degenerate triangles between the faces
cubeIndices_noDegenerate ==
    << 0, 1, 2, 3,   4, 5, 6, 7,   8, 9, 10, 11,
       12, 13, 14, 15,   16, 17, 18, 19,   20, 21, 22, 23 >>

\* the index list of Cube.h: six four-vertex strips joined by repeated indices
cubeIndices ==
    << 0, 1, 2, 3,   3, 4,   4, 5, 6, 7,   7, 8,   8, 9, 10, 11,   11, 12,
       12, 13, 14, 15,   15, 16,   16, 17, 18, 19,   19, 20,   20, 21, 22, 23 >>

\* number of vertices declared by cubeVertices (72 floats, 3 per vertex)
cubeVertexCount == 24

\* the vertex arrays Cube.h declares, with their numbers of floats
cubeArrays ==
    [ cubeVertices |-> 72, cubeTextureCoordinates |-> 48, cubeColors |-> 96 ]

\* the sentinel glGetAttribLocation / glGetUniformLocation return for a
\* name that is not an active attribute / uniform of the program
NotFound == -1

(* ------------------------------------------------------------------ *)
(* State                                                               *)
(* ------------------------------------------------------------------ *)

VARIABLES
    variant,      \* which program runs
    pc,           \* the statement of main() about to run, or "exited"
    exitStatus,   \* value returned by main(); -1 while it has not returned
    failedAt,     \* the setup stage whose failure made main() return, or "none"
    calls,        \* platform calls issued since setup began / since the
                  \* current loop iteration began, in order
    nlog,         \* error lines the last step of main() wrote to stderr
    queries,      \* error-queue queries (glGetError/eglGetError) of the last step
    gl,           \* the GL context state the program's calls have produced
    sh,           \* the shader globals: programID and the iLoc* handles
    res,          \* the resource globals: iFBO, iFBOTex, yuvTex, fbTex
    angleX, angleY, angleZ,   \* animation state, in fixed-point units
    w, h,         \* window dimensions queried from the surface
    frames,       \* renderFrame() calls completed, counted up to MaxFrames
    ext           \* external image source: buffer lock state, device state

vars == << variant, pc, exitStatus, failedAt, calls, nlog, queries, gl, sh, res,
           angleX, angleY, angleZ, w, h, frames, ext >>

(* ------------------------------------------------------------------ *)
(* The platform as seen through the program's calls                    *)
(* ------------------------------------------------------------------ *)

\* window sizes the surface may report (eglQuerySurface EGL_WIDTH/EGL_HEIGHT)
WindowSizes == { <<640, 480>> }

\* GL context state right after eglMakeCurrent: nothing bound, the default
\* framebuffer (0) is the window surface, the viewport is the surface's size.
\* uniform[l] is the value of the uniform at location l of the linked program;
\* texTarget[n] is the target texture name n was first bound to ("none": the
\* name is generated and not yet bound); attached is the texture that is the
\* colour output of the framebuffer object; fboImage names the frame (by its
\* angles) whose offscreen pass last drew into that texture.
InitialGl ==
    [ program   |-> 0,
      fbo       |-> 0,
      viewport  |-> <<0, 0>>,
      enabled   |-> {},
      linked    |-> "none",
      uniform   |-> <<>>,
      tex2D     |-> 0,
      texExt    |-> 0,
      texTarget |-> <<>>,
      attached  |-> 0,
      fboImage  |-> <<>> ]

\* the part of the state a step of main() works on; the stderr and
\* error-query counts start at 0 for every step
Machine == [ gl |-> gl, calls |-> calls, nlog |-> 0, queries |-> 0 ]

\* one platform call, recorded with its arguments
Api(m, op, args) ==
    [m EXCEPT !.calls = Append(@, [op |-> op, args |-> args, at |-> <<>>])]

\* the context state a call is issued in, as the platform sees it
Snapshot(g) ==
    [ program   |-> g.program,
      fbo       |-> g.fbo,
      viewport  |-> g.viewport,
      enabled   |-> g.enabled,
      linked    |-> g.linked,
      uniform   |-> g.uniform,
      tex2D     |-> g.tex2D,
      texExt    |-> g.texExt,
      texTarget |-> g.texTarget,
      attached  |-> g.attached,
      fboImage  |-> g.fboImage ]

\* a draw or present call, recorded with the GL state it is issued in
ApiAt(m, op, args) ==
    [m EXCEPT !.calls = Append(@, [op |-> op, args |-> args, at |-> Snapshot(m.gl)])]

\* fprintf(stderr, ...) of an error or warning line
fprintf(m) == [m EXCEPT !.nlog = @ + 1]

\* a check that ends the process when the error queue is not empty
checkGlError_fatal(m, errs) ==
    IF errs > 0
    THEN [m EXCEPT !.calls = Append(@, [op |-> "exit", args |-> << 1 >>, at |-> <<>>]),
                   !.nlog = @ + 1, !.queries = @ + 1]
    ELSE [m EXCEPT !.queries = @ + 1]

\* checkEglError without the line for returnVal != EGL_TRUE
checkEglError_noReturnVal(m, returnVal, errs) ==
    [m EXCEPT !.nlog = @ + errs, !.queries = @ + errs + 1]

\* checkEglError(op, returnVal): one line when returnVal != EGL_TRUE, then
\* one line per error code queried until eglGetError() reports EGL_SUCCESS;
\* errs is the number of error codes the queue holds
checkEglError(m, returnVal, errs) ==
    [m EXCEPT !.nlog = @ + (IF returnVal THEN 0 ELSE 1) + errs,
              !.queries = @ + errs + 1]

\* checkGlError(op): one line per error code until glGetError() reports 0
checkGlError(m, errs) ==
    [m EXCEPT !.nlog = @ + errs, !.queries = @ + errs + 1]

(* ------------------------------------------------------------------ *)
(* main(): how a stage ends                                            *)
(* ------------------------------------------------------------------ *)

\* every failing stage returning 1
ExitCode_allOne(stage) == 1

\* the value main() returns when the given stage fails
ExitCode(stage) ==
    IF stage \in {"eglGetDisplay", "eglInitialize"} THEN 0 ELSE 1

Commit(m) ==
    /\ gl' = m.gl
    /\ calls' = m.calls
    /\ nlog' = m.nlog
    /\ queries' = m.queries

\* the stage succeeded: main() goes on with the next statement
Continue(m, next) ==
    /\ Commit(m)
    /\ pc' = next
    /\ UNCHANGED << exitStatus, failedAt >>

\* the stage failed: main() returns
Return(m, stage) ==
    /\ Commit(m)
    /\ pc' = "exited"
    /\ exitStatus' = ExitCode(stage)
    /\ failedAt' = stage

(* ------------------------------------------------------------------ *)
(* main(): display, configuration, surface, context                    *)
(* ------------------------------------------------------------------ *)

EglGetDisplay(ok, errs) ==
    /\ pc = "eglGetDisplay"
    /\ LET m1 == checkEglError(Machine, TRUE, errs)
           m2 == Api(m1, "eglGetDisplay", <<>>)
           m3 == checkEglError(m2, TRUE, errs)
       IN  IF ok THEN Continue(m3, "eglInitialize")
                 ELSE Return(fprintf(m3), "eglGetDisplay")
    /\ UNCHANGED << variant, sh, res, angleX, angleY, angleZ, w, h, frames, ext >>

EglInitialize(ok, errs) ==
    /\ pc = "eglInitialize"
    /\ LET m1 == Api(Machine, "eglInitialize", <<>>)
           m2 == checkEglError(m1, ok, errs)
       IN  IF ok THEN Continue(m2, "selectConfig")
                 ELSE Return(fprintf(m2), "eglInitialize")
    /\ UNCHANGED << variant, sh, res, angleX, angleY, angleZ, w, h, frames, ext >>

SelectConfig(ok, errs) ==
    /\ pc = "selectConfig"
    /\ LET m1 == Api(Machine, "android_createDisplaySurfaceEx", <<>>)
           m2 == Api(m1, "selectConfigForNativeWindow", <<>>)
       IN  IF ok THEN Continue(checkEglError(m2, TRUE, errs), "eglCreateWindowSurface")
                 ELSE Return(fprintf(m2), "selectConfig")
    /\ UNCHANGED << variant, sh, res, angleX, angleY, angleZ, w, h, frames, ext >>

EglCreateWindowSurface(ok, errs) ==
    /\ pc = "eglCreateWindowSurface"
    /\ LET m1 == Api(Machine, "eglCreateWindowSurface", <<>>)
           m2 == checkEglError(m1, TRUE, errs)
       IN  IF ok THEN Continue(m2, "eglCreateContext")
                 ELSE Return(fprintf(m2), "eglCreateWindowSurface")
    /\ UNCHANGED << variant, sh, res, angleX, angleY, angleZ, w, h, frames, ext >>

EglCreateContext(ok, errs) ==
    /\ pc = "eglCreateContext"
    /\ LET m1 == Api(Machine, "eglCreateContext", <<>>)
           m2 == checkEglError(m1, TRUE, errs)
       IN  IF ok THEN Continue(m2, "eglMakeCurrent")
                 ELSE Return(fprintf(m2), "eglCreateContext")
    /\ UNCHANGED << variant, sh, res, angleX, angleY, angleZ, w, h, frames, ext >>

\* a main() that goes from the printGLString lines straight to setupGraphics
AfterMakeCurrent_graphics(v) == "setupGraphics"

\* the statement of main() that follows the printGLString lines
AfterMakeCurrent(v) == IF v = "cube" THEN "setupGraphics" ELSE "setupTexSurface"

\* eglMakeCurrent, and on success the queries of the surface size and of the
\* GL strings; a failure is reported by checkEglError alone
EglMakeCurrent(ok, size, errs) ==
    /\ pc = "eglMakeCurrent"
    /\ LET m1 == Api(Machine, "eglMakeCurrent", <<>>)
           m2 == checkEglError(m1, ok, errs)
           m3 == [m2 EXCEPT !.gl = [InitialGl EXCEPT !.viewport = size]]
           m4 == checkEglError(Api(m3, "eglQuerySurface", <<"EGL_WIDTH">>), TRUE, errs)
           m5 == checkEglError(Api(m4, "eglQuerySurface", <<"EGL_HEIGHT">>), TRUE, errs)
           m6 == Api(Api(Api(Api(m5, "glGetString", <<"GL_VERSION">>),
                                     "glGetString", <<"GL_VENDOR">>),
                                     "glGetString", <<"GL_RENDERER">>),
                                     "glGetString", <<"GL_EXTENSIONS">>)
       IN  IF ok THEN /\ Continue(m6, AfterMakeCurrent(variant))
                      /\ w' = size[1]
                      /\ h' = size[2]
                 ELSE /\ Return(m2, "eglMakeCurrent")
                      /\ UNCHANGED << w, h >>
    /\ UNCHANGED << variant, sh, res, angleX, angleY, angleZ, frames, ext >>

(* ------------------------------------------------------------------ *)
(* Synthetic external image: setupYuvTexSurface (yuvtex)               *)
(* ------------------------------------------------------------------ *)

yuvTexOffsetY == 0

yuvTexSameUV == FALSE

\* value of a buffer byte the program has not written
Unwritten == -1

\* int blockWidth = yuvTexWidth > 16 ? yuvTexWidth / 16 : 1  (same for height)
BlockSize(n) == IF n > 16 THEN n \div 16 ELSE 1

\* (v + 0xf) & ~0xf
Align16(v) == ((v + 15) \div 16) * 16

\* strides and plane offsets computed from the buffer's luma stride
YuvLayout(width, height, strideY) ==
    LET offsetV == strideY * height
        strideV == Align16(strideY \div 2)
        offsetU == offsetV + (strideV * height) \div 2
    IN  [ width |-> width, height |-> height,
          blockWidth |-> BlockSize(width), blockHeight |-> BlockSize(height),
          strideY |-> strideY, offsetV |-> offsetV, strideV |-> strideV,
          offsetU |-> offsetU, strideU |-> strideV,
          size |-> offsetU + (strideV * height) \div 2 ]

\* intensity with the two block parities combined by AND instead of XOR
Intensity_and(x, y, g) ==
    IF ((x \div g.blockWidth) % 2 = 1) /\ ((y \div g.blockHeight) % 2 = 1)
    THEN 63 ELSE 191

\* unsigned char intensity = (parityX ^ parityY) ? 63 : 191
Intensity(x, y, g) ==
    LET parityX == (x \div g.blockWidth) % 2
        parityY == (y \div g.blockHeight) % 2
    IN  IF parityX # parityY THEN 63 ELSE 191

\* buf[i] = v; a store outside the buffer is recorded, not performed
Store(b, i, v) ==
    IF i \in DOMAIN b.mem THEN [b EXCEPT !.mem[i] = v]
                          ELSE [b EXCEPT !.oob = TRUE]

\* a loop body that writes the V plane for every pixel of the chroma
\* quadrant, not only for those of its quarter
FillPixel_noQuarter(b, x, y, g) ==
    LET v  == Intensity(x, y, g)
        b1 == Store(b, yuvTexOffsetY + (y * g.strideY) + x, v)
        b2 == Store(b1, g.offsetU + (y * g.strideU) + x, v)
        q1 == Store(b2, g.offsetV + ((y*2+1) * g.strideV) + x*2 + 1, v)
        q2 == Store(q1, g.offsetV + ((y*2+1) * g.strideV) + x*2 + 0, v)
        q3 == Store(q2, g.offsetV + (y*2 * g.strideV) + x*2 + 1, v)
        q4 == Store(q3, g.offsetV + (y*2 * g.strideV) + x*2 + 0, v)
    IN  IF x < g.width \div 2 /\ y < g.height \div 2 THEN q4 ELSE b1

\* the body of the two loops for one (x, y)
FillPixel(b, x, y, g) ==
    LET v  == Intensity(x, y, g)
        b1 == Store(b, yuvTexOffsetY + (y * g.strideY) + x, v)
        b2 == Store(b1, g.offsetU + (y * g.strideU) + x, v)
        b3 == Store(b2, g.offsetV + (y * g.strideV) + x, v)
        q1 == Store(b2, g.offsetV + ((y*2+1) * g.strideV) + x*2 + 1, v)
        q2 == Store(q1, g.offsetV + ((y*2+1) * g.strideV) + x*2 + 0, v)
        q3 == Store(q2, g.offsetV + (y*2 * g.strideV) + x*2 + 1, v)
        q4 == Store(q3, g.offsetV + (y*2 * g.strideV) + x*2 + 0, v)
    IN  IF x < g.width \div 2 /\ y < g.height \div 2
        THEN IF yuvTexSameUV THEN b3
             ELSE IF x < g.width \div 4 /\ y < g.height \div 4 THEN q4 ELSE b2
        ELSE b1

\* for (int y = 0; y < yuvTexHeight; y++) { ... }  from the row b.y on;
\* b carries the buffer and the loop counters x and y
RECURSIVE FillColumn(_, _)
FillColumn(b, g) ==
    IF b.y < g.height
    THEN FillColumn([FillPixel(b, b.x, b.y, g) EXCEPT !.y = @ + 1], g)
    ELSE b

\* for (int x = 0; x < yuvTexWidth; x++) { ... }  from the column b.x on
RECURSIVE FillImage(_, _)
FillImage(b, g) ==
    IF b.x < g.width
    THEN FillImage([FillColumn([b EXCEPT !.y = 0], g) EXCEPT !.x = @ + 1], g)
    ELSE b

\* glGenTextures(1, &name): the next unused texture name
GenTexture(m) == Len(m.gl.texTarget) + 1

glGenTextures(m) ==
    [Api(m, "glGenTextures", << GenTexture(m) >>)
        EXCEPT !.gl.texTarget = Append(@, "none")]

\* glBindTexture(target, name): a name keeps the target it was first bound
\* to; binding it to another target is a GL error and binds nothing
glBindTexture(m, target, name) ==
    LET known == name \in DOMAIN m.gl.texTarget
        fresh == known /\ m.gl.texTarget[name] = "none"
        legal == name = 0 \/ ~known \/ fresh \/ m.gl.texTarget[name] = target
        m1    == Api(m, "glBindTexture", << target, name >>)
        m2    == IF fresh THEN [m1 EXCEPT !.gl.texTarget[name] = target] ELSE m1
    IN  IF ~legal THEN m1
        ELSE IF target = "GL_TEXTURE_2D" THEN [m2 EXCEPT !.gl.tex2D = name]
                                         ELSE [m2 EXCEPT !.gl.texExt = name]

\* the fill/import function returns: at the failed lock, at the failed
\* unlock, at the failed image creation, or at its end
Returned(e, at) == [e EXCEPT !.returned = at]

\* eglCreateImageKHR ... glEGLImageTargetTexture2DOES: import the buffer as an
\* image and make it the content of a newly generated external texture.
\* Yields the machine, whether the import succeeded and the texture name.
ImportImage(m, imgOk, errs) ==
    LET m1 == checkEglError(Api(m, "eglCreateImageKHR", <<>>), TRUE, errs)
        t  == GenTexture(m1)
        m2 == checkGlError(glGenTextures(m1), errs)
        m3 == checkGlError(glBindTexture(m2, "GL_TEXTURE_EXTERNAL_OES", t), errs)
        m4 == checkGlError(Api(m3, "glEGLImageTargetTexture2DOES", << t >>), errs)
    IN  IF imgOk THEN [ m |-> m4, ok |-> TRUE, tex |-> t ]
                 ELSE [ m |-> m1, ok |-> FALSE, tex |-> 0 ]

\* setupYuvTexSurface(dpy, context): yields the machine, the external-image
\* state, the return value and yuvTex
setupYuvTexSurface(m, e, strideY, lockOk, unlockOk, imgOk, errs) ==
    LET g   == YuvLayout(e.width, e.height, strideY)
        m1  == Api(Api(m, "new GraphicBuffer", << e.width, e.height >>),
                   "getStride", << strideY >>)
        e1  == [e EXCEPT !.mem = [i \in 0 .. g.size - 1 |-> Unwritten],
                         !.stride = strideY]
        m2  == Api(m1, "lock", <<>>)
        e2  == [e1 EXCEPT !.locked = TRUE]
        b   == FillImage([mem |-> e2.mem, oob |-> e2.oob, x |-> 0, y |-> 0], g)
        e3  == [e2 EXCEPT !.mem = b.mem, !.oob = b.oob]
        m3  == Api(m2, "unlock", <<>>)
        e4  == [e3 EXCEPT !.locked = FALSE]
        imp == ImportImage(m3, imgOk, errs)
    IN  IF ~lockOk
        THEN [ m |-> fprintf(m2), e |-> Returned(e1, "lock"), ok |-> FALSE, tex |-> 0 ]
        ELSE IF ~unlockOk
        THEN [ m |-> fprintf(m3), e |-> Returned(e3, "unlock"), ok |-> FALSE, tex |-> 0 ]
        ELSE [ m |-> imp.m,
               e |-> Returned(e4, IF imp.ok THEN "end" ELSE "eglCreateImageKHR"),
               ok |-> imp.ok, tex |-> imp.tex ]

\* luma strides the buffer may report for a width: the width itself or the
\* width rounded up to the allocator's alignment
Strides(width) == { width, Align16(width) }

\* main(): if(!setupYuvTexSurface(dpy, context)) { ...; return 1; }
SetupYuvTexSurface(strideY, lockOk, unlockOk, imgOk, errs) ==
    /\ pc = "setupTexSurface"
    /\ variant = "yuvtex"
    \* a call that is not made has no answer
    /\ lockOk \/ unlockOk
    /\ (lockOk /\ unlockOk) \/ (imgOk /\ errs = 0)
    /\ LET m0 == Machine
           r  == setupYuvTexSurface(m0, ext, strideY, lockOk, unlockOk, imgOk, errs)
       IN  /\ ext' = r.e
           /\ res' = [res EXCEPT !.yuvTex = r.tex]
           /\ IF r.ok THEN Continue(r.m, "setupGraphics")
                      ELSE Return(fprintf(r.m), "setupTexSurface")
    /\ UNCHANGED << variant, sh, angleX, angleY, angleZ, w, h, frames >>

(* ------------------------------------------------------------------ *)
(* Live capture: openFbDevice, fillFbTexture, setupFbTexSurface (fbtex)*)
(* ------------------------------------------------------------------ *)

fbTexWidth == 640

fbTexHeight == 240

\* bytes per pixel of HAL_PIXEL_FORMAT_RGB_565
Rgb565Bytes == 2

\* times one ioctl may be interrupted (EINTR) before it completes
MaxEintr == 1

\* the global vInfo before any successful FBIOGET_VSCREENINFO
ZeroInfo ==
    [ xres |-> 0, yres |-> 0, xres_virtual |-> 0, yres_virtual |-> 0,
      bits_per_pixel |-> 0, yoffset |-> 0 ]

\* a screen whose visible page is exactly the size of the destination
\* buffer, double-buffered by vertical panning and showing its second page
SmallScreen ==
    [ xres |-> 640, yres |-> 240, xres_virtual |-> 640, yres_virtual |-> 480,
      bits_per_pixel |-> 16, yoffset |-> 240 ]

\* a larger 32-bit screen
LargeScreen ==
    [ xres |-> 800, yres |-> 480, xres_virtual |-> 800, yres_virtual |-> 480,
      bits_per_pixel |-> 32, yoffset |-> 0 ]

\* screen geometries the framebuffer device may report
ScreenInfos == { SmallScreen, LargeScreen }

\* an xioctl that issues ioctl() once more after the call that completed
RECURSIVE xioctl_again(_, _, _)
xioctl_again(m, request, eintr) ==
    LET m1 == Api(m, "ioctl", << request >>)
    IN  IF eintr > 0 THEN xioctl_again(m1, request, eintr - 1)
                     ELSE Api(m1, "ioctl", << request >>)

\* xioctl(fd, request, arg): ioctl() is issued again for as long as it is
\* interrupted; eintr is the number of interruptions
RECURSIVE xioctl(_, _, _)
xioctl(m, request, eintr) ==
    LET m1 == Api(m, "ioctl", << request >>)
    IN  IF eintr > 0 THEN xioctl(m1, request, eintr - 1) ELSE m1

\* openFbDevice(): yields the machine and the device state
openFbDevice(m, e, openOk, eintr, varOk, info, mapOk) ==
    LET m1 == Api(m, "open", <<>>)
        m2 == xioctl(m1, "FBIOGET_FSCREENINFO", eintr)
        m3 == xioctl(m2, "FBIOGET_VSCREENINFO", eintr)
        m4 == IF varOk THEN m3 ELSE fprintf(m3)
        v  == IF varOk THEN info ELSE e.vInfo
        sz == (v.xres_virtual * v.yres_virtual * v.bits_per_pixel) \div 8
        m5 == Api(m4, "mmap", << sz >>)
    IN  IF ~openOk
        THEN [ m |-> fprintf(m1), e |-> [e EXCEPT !.fd = -1] ]
        ELSE [ m |-> IF mapOk THEN m5 ELSE fprintf(m5),
               e |-> [e EXCEPT !.fd = 3, !.vInfo = v, !.scrSize = sz,
                               !.pFbBuf = IF mapOk THEN "mapped" ELSE "MAP_FAILED"] ]

\* bytes the destination buffer holds: 640 x 240 pixels of RGB565
FbBufferBytes == fbTexWidth * fbTexHeight * Rgb565Bytes

\* memcpy(buf, pFbBuf + yoffset*xres*bpp/8, xres*yres*bpp/8): the copy and
\* what it touches.  A copy that reads outside the mapping or writes beyond
\* the buffer has undefined behaviour (e.ub).
memcpyFb(m, e) ==
    LET v   == e.vInfo
        src == (v.yoffset * v.xres * v.bits_per_pixel) \div 8
        len == (v.xres * v.yres * v.bits_per_pixel) \div 8
        badRead  == len > 0 /\ (e.pFbBuf # "mapped" \/ src + len > e.scrSize)
        badWrite == len > FbBufferBytes
    IN  [ m |-> Api(m, "memcpy", << src, len >>),
          e |-> [e EXCEPT !.mem = << src, len >>,
                          !.oob = @ \/ badWrite,
                          !.ub = badRead \/ badWrite] ]

\* fillFbTexture that asks for the lock a second time when it is refused
fillFbTexture_relock(m, e, tex, flag, lockOk, eintr, varOk, info, unlockOk, imgOk, errs) ==
    LET m1 == Api(Api(m, "lock", <<>>), "lock", <<>>)
    IN  [ m |-> fprintf(m1), e |-> Returned([e EXCEPT !.ub = FALSE], "lock"), tex |-> tex ]

\* fillFbTexture(dpy, context, flag): yields the machine, the external-image
\* state and fbTex
fillFbTexture(m, e, tex, flag, lockOk, eintr, varOk, info, unlockOk, imgOk, errs) ==
    LET m1  == Api(m, "lock", <<>>)
        e0  == [e EXCEPT !.ub = FALSE]
        e1  == [e0 EXCEPT !.locked = TRUE]
        m2  == xioctl(m1, "FBIOGET_VSCREENINFO", eintr)
        m3  == IF varOk THEN m2 ELSE fprintf(m2)
        e2  == IF varOk THEN [e1 EXCEPT !.vInfo = info] ELSE e1
        cp  == memcpyFb(m3, e2)
        m4  == Api(cp.m, "unlock", <<>>)
        e3  == [cp.e EXCEPT !.locked = FALSE]
        imp == ImportImage(m4, imgOk, errs)
        m5  == checkGlError(Api(imp.m, "eglDestroyImageKHR", <<>>), errs)
    IN  IF ~lockOk THEN [ m |-> fprintf(m1), e |-> Returned(e0, "lock"), tex |-> tex ]
        ELSE IF ~unlockOk
        THEN [ m |-> fprintf(m4), e |-> Returned(cp.e, "unlock"), tex |-> tex ]
        ELSE IF ~flag THEN [ m |-> m4, e |-> Returned(e3, "end"), tex |-> tex ]
        ELSE IF ~imp.ok
        THEN [ m |-> imp.m, e |-> Returned(e3, "eglCreateImageKHR"), tex |-> tex ]
        ELSE [ m |-> m5, e |-> Returned(e3, "end"), tex |-> imp.tex ]

\* the answers of the platform to one fillFbTexture call: a closed
\* descriptor fails every ioctl at once, and a call that is not made has no
\* answer (its parameter is held at a fixed value)
DeviceAnswers(e, lockOk, eintr, varOk, info, unlockOk) ==
    IF ~lockOk
    THEN eintr = 0 /\ varOk /\ info = SmallScreen /\ unlockOk
    ELSE /\ e.fd < 0 => (eintr = 0 /\ ~varOk)
         /\ ~varOk => info = SmallScreen

\* the answers of the platform to openFbDevice: nothing is asked of a device
\* that could not be opened, and an empty range cannot be mapped
OpenAnswers(openOk, varOk, info, mapOk, scrSize) ==
    IF ~openOk
    THEN varOk /\ info = SmallScreen /\ mapOk
    ELSE /\ ~varOk => info = SmallScreen
         /\ mapOk => scrSize > 0

\* the process is killed by the fault of a copy with undefined behaviour
Crash(m) ==
    /\ Commit(m)
    /\ pc' = "crashed"
    /\ UNCHANGED << exitStatus, failedAt >>

\* main(): if(!setupFbTexSurface(dpy, context)) { ...; return 1; }
\* setupFbTexSurface allocates the buffer, opens the device, fills and
\* imports the buffer, and returns true
SetupFbTexSurface(openOk, eintr, varOk, info, mapOk, lockOk, varOk2, info2, unlockOk, imgOk, fault, errs) ==
    /\ pc = "setupTexSurface"
    /\ variant = "fbtex"
    /\ LET m1 == Api(Machine, "new GraphicBuffer", << fbTexWidth, fbTexHeight >>)
           o  == openFbDevice(m1, ext, openOk, eintr, varOk, info, mapOk)
           r  == fillFbTexture(o.m, o.e, res.fbTex, TRUE,
                               lockOk, eintr, varOk2, info2, unlockOk, imgOk, errs)
       IN  /\ OpenAnswers(openOk, varOk, info, mapOk, o.e.scrSize)
           /\ DeviceAnswers(o.e, lockOk, eintr, varOk2, info2, unlockOk)
           /\ (lockOk /\ unlockOk) \/ (imgOk /\ errs = 0)
           /\ fault => r.e.ub
           /\ ext' = r.e
           /\ res' = [res EXCEPT !.fbTex = r.tex]
           /\ IF fault THEN Crash(r.m) ELSE Continue(r.m, "setupGraphics")
    /\ UNCHANGED << variant, sh, angleX, angleY, angleZ, w, h, frames >>

\* a loop that imports the buffer again after every frame
LoopFillFlag_true == TRUE

\* the flag main() passes to fillFbTexture in the loop
LoopFillFlag == FALSE

\* main(): fillFbTexture(dpy, context, false) at the end of a loop iteration
\* (with flag false the image is not imported and no GL error is checked)
FillFbTexture(lockOk, eintr, varOk, info, unlockOk, fault) ==
    /\ pc = "fillFbTexture"
    /\ LET r == fillFbTexture(Machine, ext, res.fbTex, LoopFillFlag,
                              lockOk, eintr, varOk, info, unlockOk, TRUE, 0)
       IN  /\ DeviceAnswers(ext, lockOk, eintr, varOk, info, unlockOk)
           /\ fault => r.e.ub
           /\ ext' = r.e
           /\ res' = [res EXCEPT !.fbTex = r.tex]
           /\ IF fault THEN Crash(r.m) ELSE Continue(r.m, "renderFrame")
    /\ UNCHANGED << variant, sh, angleX, angleY, angleZ, w, h, frames >>

(* ------------------------------------------------------------------ *)
(* GL calls that change the modelled context state                     *)
(* ------------------------------------------------------------------ *)

glUseProgram(m, program) ==
    [Api(m, "glUseProgram", << program >>) EXCEPT !.gl.program = program]

\* an index that is no attribute location (-1) is a GL error: nothing is enabled
glEnableVertexAttribArray(m, index) ==
    LET m1 == Api(m, "glEnableVertexAttribArray", << index >>)
    IN  IF index >= 0 THEN [m1 EXCEPT !.gl.enabled = @ \cup {index}] ELSE m1

glVertexAttribPointer(m, index, size, array) ==
    Api(m, "glVertexAttribPointer", << index, size, array >>)

glBindFramebuffer(m, framebuffer) ==
    [Api(m, "glBindFramebuffer", << framebuffer >>) EXCEPT !.gl.fbo = framebuffer]

glViewport(m, width, height) ==
    [Api(m, "glViewport", << width, height >>) EXCEPT !.gl.viewport = << width, height >>]

\* glUniform1f / glUniform1i / glUniformMatrix4fv: GL ignores location -1
glUniform(m, op, location, value) ==
    LET m1 == Api(m, op, << location, value >>)
    IN  IF location \in DOMAIN m.gl.uniform
        THEN [m1 EXCEPT !.gl.uniform[location] = value] ELSE m1

\* a draw call: drawn into the framebuffer object when one is bound
Draw(m, op, args, frame) ==
    LET m1 == ApiAt(m, op, args)
    IN  IF m.gl.fbo # 0 THEN [m1 EXCEPT !.gl.fboImage = frame] ELSE m1

(* ------------------------------------------------------------------ *)
(* Program/shader binder: loadShader, setupGraphics                    *)
(* ------------------------------------------------------------------ *)

\* shader globals before setupGraphics: the offscreen variants initialise
\* every handle to -1, gl2_cube.cpp leaves its globals zero-initialised
InitialSh(v) ==
    IF v \in FboVariants
    THEN [ programID |-> 0, iLocPosition |-> NotFound, iLocTextureMix |-> NotFound,
           iLocTexture |-> NotFound, iLocFillColor |-> NotFound,
           iLocTexCoord |-> NotFound, iLocProjection |-> NotFound,
           iLocModelview |-> NotFound ]
    ELSE [ programID |-> 0, iLocPosition |-> 0, iLocColor |-> 0, iLocMVP |-> 0 ]

\* names the shader pair of a variant declares
AttribNames(v) ==
    IF v \in FboVariants THEN << "a_v4Position", "a_v4FillColor", "a_v2TexCoord" >>
                         ELSE << "av4position", "av3colour" >>

UniformNames(v) ==
    IF v \in FboVariants
    THEN << "u_fTex", "u_s2dTexture", "u_m4Projection", "u_m4Modelview" >>
    ELSE << "mvp" >>

HandleNames(v) ==
    {AttribNames(v)[i] : i \in DOMAIN AttribNames(v)}
        \cup {UniformNames(v)[i] : i \in DOMAIN UniformNames(v)}

\* the location the linker gives the i-th declared name: 0, 1, 2, ...
IndexOf(names, name) == CHOOSE i \in DOMAIN names : names[i] = name

\* glGetAttribLocation / glGetUniformLocation: the location of an active
\* name of a linked program, else -1
GetLocation(names, name, found) ==
    IF name \in found THEN IndexOf(names, name) - 1 ELSE NotFound

\* loadShader(shaderType, pSource): outcome "ok", "create" (glCreateShader
\* yields 0) or "compile" (the shader does not compile: its log is written
\* and the shader deleted); yields the machine and the shader name
loadShader(m, shaderType, name, outcome) ==
    LET m1 == Api(m, "glCreateShader", << shaderType >>)
        m2 == Api(Api(Api(m1, "glShaderSource", << name >>),
                      "glCompileShader", << name >>),
                  "glGetShaderiv", << name, "GL_COMPILE_STATUS" >>)
        m3 == Api(fprintf(Api(Api(m2, "glGetShaderiv", << name, "GL_INFO_LOG_LENGTH" >>),
                              "glGetShaderInfoLog", << name >>)),
                  "glDeleteShader", << name >>)
    IN  CASE outcome = "create"  -> [ m |-> m1, shader |-> 0 ]
          [] outcome = "compile" -> [ m |-> m3, shader |-> 0 ]
          [] OTHER               -> [ m |-> m2, shader |-> name ]

\* glCreateProgram ... glUseProgram: create the program, load both shaders,
\* attach, link and use.  fail names the first step that fails ("none",
\* "glCreateProgram", "vertexCreate", "vertexCompile", "pixelCreate",
\* "pixelCompile"); the link result is not queried.
BuildProgram(m, fail, linkOk, nuniforms, errs) ==
    LET m1 == Api(m, "glCreateProgram", <<>>)
        vs == loadShader(m1, "GL_VERTEX_SHADER", 1,
                         CASE fail = "vertexCreate" -> "create"
                           [] fail = "vertexCompile" -> "compile"
                           [] OTHER -> "ok")
        ps == loadShader(vs.m, "GL_FRAGMENT_SHADER", 2,
                         CASE fail = "pixelCreate" -> "create"
                           [] fail = "pixelCompile" -> "compile"
                           [] OTHER -> "ok")
        m2 == checkGlError(Api(ps.m, "glAttachShader", << 1, 1 >>), errs)
        m3 == checkGlError(Api(m2, "glAttachShader", << 1, 2 >>), errs)
        m4 == Api(m3, "glLinkProgram", << 1 >>)
        m5 == [m4 EXCEPT !.gl.linked = IF linkOk THEN "ok" ELSE "failed",
                         !.gl.uniform = IF linkOk THEN [l \in 0 .. nuniforms - 1 |-> 0]
                                                  ELSE <<>>]
        m6 == checkGlError(glUseProgram(checkGlError(m5, errs), 1), errs)
    IN  CASE fail = "glCreateProgram" ->
               [ m |-> fprintf(m1), ok |-> FALSE, cause |-> "glCreateProgram", programID |-> 0 ]
          [] fail \in {"vertexCreate", "vertexCompile"} ->
               [ m |-> fprintf(vs.m), ok |-> FALSE, cause |-> "vertexShader", programID |-> 1 ]
          [] fail \in {"pixelCreate", "pixelCompile"} ->
               [ m |-> fprintf(ps.m), ok |-> FALSE, cause |-> "pixelShader", programID |-> 1 ]
          [] OTHER ->
               [ m |-> m6, ok |-> TRUE, cause |-> "none", programID |-> 1 ]

\* "if(iLoc == -1) warn; else glEnableVertexAttribArray(iLoc);"
EnableIfFound(m, location) ==
    IF location = NotFound THEN fprintf(m) ELSE glEnableVertexAttribArray(m, location)

\* "if(iLoc == -1) warn; else glUniform...(iLoc, value);"
UploadIfFound(m, op, location, value) ==
    IF location = NotFound THEN fprintf(m) ELSE glUniform(m, op, location, value)

\* setupGraphics(w, h) of the offscreen variants: yields the machine, the
\* shader and resource globals, the return value and what failed.
\* fail also ranges over "glCheckFramebufferStatus"; found is the set of
\* declared names that are active in the linked program.
setupGraphicsFbo(m, s, r, v, fail, linkOk, found, errs) ==
    LET m1  == Api(Api(Api(Api(Api(m, "glEnable", << "GL_BLEND" >>),
                                   "glEnable", << "GL_CULL_FACE" >>),
                               "glCullFace", << "GL_BACK" >>),
                           "glEnable", << "GL_DEPTH_TEST" >>),
                       "glBlendFunc", <<>>)
        t   == GenTexture(m1)
        m2  == glBindTexture(glGenTextures(m1), "GL_TEXTURE_2D", t)
        m3  == Api(Api(Api(m2, "glTexParameteri", << "GL_TEXTURE_MIN_FILTER", "GL_LINEAR" >>),
                       "glTexParameteri", << "GL_TEXTURE_MAG_FILTER", "GL_LINEAR" >>),
                   "glTexImage2D", << FBO_WIDTH, FBO_HEIGHT >>)
        m4  == glBindFramebuffer(Api(m3, "glGenFramebuffers", << 1 >>), 1)
        m5  == [Api(m4, "glFramebufferTexture2D", << t >>) EXCEPT !.gl.attached = t]
        m6  == Api(m5, "glCheckFramebufferStatus", <<>>)
        r1  == [r EXCEPT !.iFBO = 1, !.iFBOTex = t]
        m7  == glBindFramebuffer(m6, 0)
        bp  == BuildProgram(m7, fail, linkOk, Len(UniformNames(v)), errs)
        s1  == [s EXCEPT !.programID = bp.programID]
        pos == GetLocation(AttribNames(v), "a_v4Position", found)
        mix == GetLocation(UniformNames(v), "u_fTex", found)
        tex == GetLocation(UniformNames(v), "u_s2dTexture", found)
        col == GetLocation(AttribNames(v), "a_v4FillColor", found)
        tc  == GetLocation(AttribNames(v), "a_v2TexCoord", found)
        prj == GetLocation(UniformNames(v), "u_m4Projection", found)
        mvw == GetLocation(UniformNames(v), "u_m4Modelview", found)
        m8  == glEnableVertexAttribArray(bp.m, pos)
        m9  == UploadIfFound(m8, "glUniform1f", mix, 0)
        m10 == UploadIfFound(m9, "glUniform1i", tex, 0)
        m11 == EnableIfFound(m10, col)
        m12 == EnableIfFound(m11, tc)
        m13 == UploadIfFound(m12, "glUniformMatrix4fv", prj, "projection")
    IN  IF fail = "glCheckFramebufferStatus"
        THEN [ m |-> fprintf(m6), s |-> s, r |-> r1, ok |-> FALSE, cause |-> fail ]
        ELSE IF ~bp.ok
        THEN [ m |-> bp.m, s |-> s1, r |-> r1, ok |-> FALSE, cause |-> bp.cause ]
        ELSE IF pos = NotFound
        THEN [ m |-> fprintf(bp.m), s |-> [s1 EXCEPT !.iLocPosition = pos], r |-> r1,
               ok |-> FALSE, cause |-> "a_v4Position" ]
        ELSE [ m |-> m13,
               s |-> [ programID |-> bp.programID, iLocPosition |-> pos,
                       iLocTextureMix |-> mix, iLocTexture |-> tex,
                       iLocFillColor |-> col, iLocTexCoord |-> tc,
                       iLocProjection |-> prj, iLocModelview |-> mvw ],
               r |-> r1, ok |-> TRUE, cause |-> "none" ]

\* setupGraphics(w, h) of gl2_cube.cpp: no handle is checked
setupGraphicsCube(m, s, r, v, fail, linkOk, found, errs) ==
    LET m1  == checkGlError(Api(m, "glEnable", << "GL_BLEND" >>), errs)
        m2  == checkGlError(Api(m1, "glBlendFunc", <<>>), errs)
        bp  == BuildProgram(m2, fail, linkOk, Len(UniformNames(v)), errs)
        s1  == [s EXCEPT !.programID = bp.programID]
        m3  == Api(Api(bp.m, "glEnable", << "GL_CULL_FACE" >>),
                   "glEnable", << "GL_DEPTH_TEST" >>)
        m4  == checkGlError(Api(m3, "glClearColor", <<>>), errs)
    IN  IF ~bp.ok
        THEN [ m |-> bp.m, s |-> s1, r |-> r, ok |-> FALSE, cause |-> bp.cause ]
        ELSE [ m |-> m4,
               s |-> [ programID |-> bp.programID,
                       iLocPosition |-> GetLocation(AttribNames(v), "av4position", found),
                       iLocColor    |-> GetLocation(AttribNames(v), "av3colour", found),
                       iLocMVP      |-> GetLocation(UniformNames(v), "mvp", found) ],
               r |-> r, ok |-> TRUE, cause |-> "none" ]

setupGraphics(m, s, r, v, fail, linkOk, found, errs) ==
    IF v \in FboVariants THEN setupGraphicsFbo(m, s, r, v, fail, linkOk, found, errs)
                         ELSE setupGraphicsCube(m, s, r, v, fail, linkOk, found, errs)

\* what can fail in setupGraphics besides a missing position attribute
SetupFailures(v) ==
    {"none", "glCreateProgram", "vertexCreate", "vertexCompile",
     "pixelCreate", "pixelCompile"}
        \cup (IF v \in FboVariants THEN {"glCheckFramebufferStatus"} ELSE {})

\* declared names the linker may drop together
MaxMissing == 1

\* the sets of active names glGet*Location may answer for: a program that
\* did not link has none; a linked one lacks at most MaxMissing of them
FoundSets(v, linkOk) ==
    IF linkOk
    THEN {f \in SUBSET HandleNames(v) : Cardinality(HandleNames(v) \ f) <= MaxMissing}
    ELSE {{}}

\* main(): if(!setupGraphics(w, h)) { ...; return 1; }
SetupGraphics(fail, linkOk, found, errs) ==
    /\ pc = "setupGraphics"
    /\ fail \in SetupFailures(variant)
    /\ found \in FoundSets(variant, linkOk)
    \* every failure in SetupFailures ends setupGraphics before glLinkProgram:
    \* the link and the location queries are not reached and have no answer
    /\ fail # "none" => (linkOk /\ found = HandleNames(variant))
    /\ LET g == setupGraphics(Machine, sh, res, variant, fail, linkOk, found, errs)
       IN  /\ sh' = g.s
           /\ res' = g.r
           /\ IF g.ok THEN Continue(g.m, "renderFrame")
                      ELSE Return(fprintf(g.m), g.cause)
    /\ UNCHANGED << variant, angleX, angleY, angleZ, w, h, frames, ext >>

(* ------------------------------------------------------------------ *)
(* renderFrame                                                         *)
(* ------------------------------------------------------------------ *)

\* fixed-point units per degree: part_000 steps by 0.15, 0.1 and 0.05 degree,
\* so its angles are counted in twentieths of a degree; the others in degrees
UnitsPerDegree(v) == IF v = "fbtex" THEN 20 ELSE 1

\* 360 degrees
FullTurn(v) == 360 * UnitsPerDegree(v)

\* the per-frame increments of angleX, angleY, angleZ, in units
AngleStep == << 3, 2, 1 >>

\* a wrap that lets a full turn stand
WrapAngle_gt(v, a) ==
    IF a > FullTurn(v) THEN a - FullTurn(v) ELSE a

\* "if(a >= 360) a -= 360;" and, in gl2_cube.cpp, "if(a < 0) a += 360;"
WrapAngle(v, a) ==
    LET a1 == IF a >= FullTurn(v) THEN a - FullTurn(v) ELSE a
    IN  IF v = "cube" /\ a1 < 0 THEN a1 + FullTurn(v) ELSE a1

\* "angle += step;" followed by the wrap
AdvanceAngle(v, a, i) == WrapAngle(v, a + AngleStep[i])

\* offscreen rotation from the negated angles in their own order
OffscreenRotation_xyz(ax, ay, az) == << -ax, -ay, -az >>

\* arguments of createRotationX, createRotationY, createRotationZ for the
\* cube drawn into the framebuffer object
OffscreenRotation(ax, ay, az) == << -az, -ay, -ax >>

\* a main pass that rotates by the angles of the next frame
MainRotation_advanced(ax, ay, az) == << ax + 3, ay + 2, az + 1 >>

\* the same for the cube drawn to the window
MainRotation(ax, ay, az) == << ax, ay, az >>

\* Matrix::createRotationX/Y/Z with the given arguments, then the upload of
\* the resulting model-view matrix
Rotate(m, location, rot) ==
    LET m1 == Api(Api(Api(m, "createRotationX", << rot[1] >>),
                      "createRotationY", << rot[2] >>),
                  "createRotationZ", << rot[3] >>)
    IN  glUniform(m1, "glUniformMatrix4fv", location, rot)

\* a pass that leaves the texture-mix factor as it finds it
SetTextureMix_skip(m, location, value) == m

\* "if(iLocTextureMix != -1) glUniform1f(iLocTextureMix, value);"
SetTextureMix(m, location, value) ==
    IF location # NotFound THEN glUniform(m, "glUniform1f", location, value) ELSE m

\* a main pass that binds no texture
MainTexture_none(v, r) == 0

\* the texture the main pass binds to GL_TEXTURE_2D
MainTexture(v, r) == IF v = "fbtex" THEN r.fbTex ELSE r.iFBOTex

\* the framebuffer bound for the second pass
WindowFramebuffer == 0

\* glEnableVertexAttribArray + glVertexAttribPointer for one attribute
SetAttribute(m, location, size, array, errs) ==
    checkGlError(glVertexAttribPointer(
                    checkGlError(glEnableVertexAttribArray(m, location), errs),
                    location, size, array), errs)

DrawCube(m, frame, errs) ==
    checkGlError(Draw(m, "glDrawElements",
                      << "GL_TRIANGLE_STRIP", Len(cubeIndices), cubeIndices >>, frame),
                 errs)

\* the pass into the framebuffer object
OffscreenPass(m, s, r, ax, ay, az, errs) ==
    LET m1 == glViewport(glBindFramebuffer(m, r.iFBO), FBO_WIDTH, FBO_HEIGHT)
        m2 == Api(Api(m1, "glClearColor", << "gray" >>), "glClear", <<>>)
        m3 == Rotate(m2, s.iLocModelview, OffscreenRotation(ax, ay, az))
        m4 == glUniform(m3, "glUniformMatrix4fv", s.iLocProjection, "projectionFBO")
        m5 == SetTextureMix(m4, s.iLocTextureMix, 0)
    IN  DrawCube(m5, << ax, ay, az >>, errs)

\* a second pass that leaves the framebuffer object bound and the viewport
\* at the size of its texture
MainPass_noUnbind(m, s, r, v, ax, ay, az, width, height, errs) ==
    LET m2 == Api(Api(m, "glClearColor", << "blue" >>), "glClear", <<>>)
        m3 == Rotate(m2, s.iLocModelview, MainRotation(ax, ay, az))
        m4 == glUniform(m3, "glUniformMatrix4fv", s.iLocProjection, "projection")
        m5 == SetTextureMix(m4, s.iLocTextureMix, 1)
        m6 == glBindTexture(Api(m5, "glActiveTexture", << 0 >>),
                            "GL_TEXTURE_2D", MainTexture(v, r))
    IN  DrawCube(m6, << ax, ay, az >>, errs)

\* the pass to the window surface
MainPass(m, s, r, v, ax, ay, az, width, height, errs) ==
    LET m1 == glViewport(glBindFramebuffer(m, WindowFramebuffer), width, height)
        m2 == Api(Api(m1, "glClearColor", << "blue" >>), "glClear", <<>>)
        m3 == Rotate(m2, s.iLocModelview, MainRotation(ax, ay, az))
        m4 == glUniform(m3, "glUniformMatrix4fv", s.iLocProjection, "projection")
        m5 == SetTextureMix(m4, s.iLocTextureMix, 1)
        m6 == glBindTexture(Api(m5, "glActiveTexture", << 0 >>),
                            "GL_TEXTURE_2D", MainTexture(v, r))
    IN  DrawCube(m6, << ax, ay, az >>, errs)

\* renderFrame that ends after the pass into the framebuffer object
renderFrameFbo_onePass(m, s, r, v, ax, ay, az, width, height, errs) ==
    OffscreenPass(checkGlError(glUseProgram(m, s.programID), errs),
                  s, r, ax, ay, az, errs)

\* renderFrame(w, h) of the offscreen variants, up to the angle update
renderFrameFbo(m, s, r, v, ax, ay, az, width, height, errs) ==
    LET m1 == checkGlError(glUseProgram(m, s.programID), errs)
        m2 == SetAttribute(m1, s.iLocPosition, 3, "cubeVertices", errs)
        m3 == SetAttribute(m2, s.iLocFillColor, 4, "cubeColors", errs)
        m4 == SetAttribute(m3, s.iLocTexCoord, 2, "cubeTextureCoordinates", errs)
        m5 == OffscreenPass(m4, s, r, ax, ay, az, errs)
    IN  MainPass(m5, s, r, v, ax, ay, az, width, height, errs)

\* renderFrame(w, h) of gl2_cube.cpp; the angles are advanced between the
\* upload of the matrix and the draw call, which does not read them
renderFrameCube(m, s, r, v, ax, ay, az, width, height, errs) ==
    LET m1 == checkGlError(glUseProgram(m, s.programID), errs)
        m2 == checkGlError(glEnableVertexAttribArray(m1, s.iLocPosition), errs)
        m3 == checkGlError(glEnableVertexAttribArray(m2, s.iLocColor), errs)
        m4 == checkGlError(glVertexAttribPointer(m3, s.iLocPosition, 3, "vertices"), errs)
        m5 == checkGlError(glVertexAttribPointer(m4, s.iLocColor, 3, "colors"), errs)
        m6 == checkGlError(Rotate(m5, s.iLocMVP, MainRotation(ax, ay, az)), errs)
        m7 == checkGlError(Api(m6, "glClear", <<>>), errs)
    IN  checkGlError(Draw(m7, "glDrawArrays", << "GL_TRIANGLES", 0, 36 >>,
                          << ax, ay, az >>), errs)

renderFrame(m, s, r, v, ax, ay, az, width, height, errs) ==
    IF v \in FboVariants
    THEN renderFrameFbo(m, s, r, v, ax, ay, az, width, height, errs)
    ELSE renderFrameCube(m, s, r, v, ax, ay, az, width, height, errs)

\* a render call that creates a new program for every frame
RenderFrameStep_newProgram(errs) ==
    /\ pc = "renderFrame"
    /\ Continue(renderFrame([Machine EXCEPT !.calls = <<>>], sh, res, variant,
                            angleX, angleY, angleZ, w, h, errs),
                "eglSwapBuffers")
    /\ sh' = [sh EXCEPT !.programID = @ + 1]
    /\ angleX' = AdvanceAngle(variant, angleX, 1)
    /\ angleY' = AdvanceAngle(variant, angleY, 2)
    /\ angleZ' = AdvanceAngle(variant, angleZ, 3)
    /\ frames' = IF frames < MaxFrames THEN frames + 1 ELSE frames
    /\ UNCHANGED << variant, res, w, h, ext >>

\* main(): renderFrame(w, h); a new loop iteration begins
RenderFrameStep(errs) ==
    /\ pc = "renderFrame"
    /\ Continue(renderFrame([Machine EXCEPT !.calls = <<>>], sh, res, variant,
                            angleX, angleY, angleZ, w, h, errs),
                "eglSwapBuffers")
    /\ angleX' = AdvanceAngle(variant, angleX, 1)
    /\ angleY' = AdvanceAngle(variant, angleY, 2)
    /\ angleZ' = AdvanceAngle(variant, angleZ, 3)
    /\ frames' = IF frames < MaxFrames THEN frames + 1 ELSE frames
    /\ UNCHANGED << variant, sh, res, w, h, ext >>

\* a loop that never fills the buffer again
AfterSwap_noFill(v, ok) == "renderFrame"

\* the statement of the loop that follows the present call, whatever the
\* present call returned
AfterSwap(v, ok) == IF v = "fbtex" THEN "fillFbTexture" ELSE "renderFrame"

\* main(): eglSwapBuffers(dpy, surface); checkEglError("eglSwapBuffers");
EglSwapBuffers(ok, errs) ==
    /\ pc = "eglSwapBuffers"
    /\ Continue(checkEglError(ApiAt(Machine, "eglSwapBuffers", <<>>), TRUE, errs),
                AfterSwap(variant, ok))
    /\ UNCHANGED << variant, sh, res, angleX, angleY, angleZ, w, h, frames, ext >>

(* ------------------------------------------------------------------ *)
(* Initial state and next-state relations                              *)
(* ------------------------------------------------------------------ *)

\* external-image state before main() runs; the globals fd, vInfo, scrSize
\* and pFbBuf of part_000 are zero-initialised
InitialExt(v, size) ==
    [ width   |-> IF v = "fbtex" THEN fbTexWidth ELSE size[1],
      height  |-> IF v = "fbtex" THEN fbTexHeight ELSE size[2],
      stride  |-> 0,
      mem     |-> <<>>,
      oob     |-> FALSE,
      ub      |-> FALSE,
      locked  |-> FALSE,
      returned |-> "none",
      fd      |-> 0,
      vInfo   |-> ZeroInfo,
      scrSize |-> 0,
      pFbBuf  |-> "NULL" ]

\* start of main() in one of the given variants; the synthetic image has one
\* of the given sizes
InitWith(variants, sizes) ==
    /\ variant \in variants
    /\ pc = "eglGetDisplay"
    /\ exitStatus = -1
    /\ failedAt = "none"
    /\ calls = <<>>
    /\ nlog = 0
    /\ queries = 0
    /\ gl = InitialGl
    /\ sh = InitialSh(variant)
    /\ res = [ iFBO |-> 0, iFBOTex |-> 0, yuvTex |-> 0, fbTex |-> 0 ]
    /\ angleX = 0
    /\ angleY = 0
    /\ angleZ = 0
    /\ w = 0
    /\ h = 0
    /\ frames = 0
    /\ \E size \in (IF variant = "yuvtex" THEN sizes ELSE {<< 0, 0 >>}) :
           ext = InitialExt(variant, size)

\* size of the synthetic image in the runs of the whole program: a reduced
\* stand-in for yuvTexWidth x yuvTexHeight = 608 x 480 (blocks of 1 pixel);
\* SpecYuv runs the fill over the sizes of YuvSizes
MainYuvSize == << 4, 4 >>

Init == InitWith(Variants, {MainYuvSize})

Errs == 0 .. MaxErrs

Eintrs == 0 .. MaxEintr

\* the steps of main() up to the loop; the position of main() selects the
\* step, the platform's answers are chosen freely
Setup ==
    \/ /\ pc = "eglGetDisplay"
       /\ \E ok \in BOOLEAN, errs \in Errs : EglGetDisplay(ok, errs)
    \/ /\ pc = "eglInitialize"
       /\ \E ok \in BOOLEAN, errs \in Errs : EglInitialize(ok, errs)
    \/ /\ pc = "selectConfig"
       /\ \E ok \in BOOLEAN, errs \in Errs : SelectConfig(ok, errs)
    \/ /\ pc = "eglCreateWindowSurface"
       /\ \E ok \in BOOLEAN, errs \in Errs : EglCreateWindowSurface(ok, errs)
    \/ /\ pc = "eglCreateContext"
       /\ \E ok \in BOOLEAN, errs \in Errs : EglCreateContext(ok, errs)
    \/ /\ pc = "eglMakeCurrent"
       /\ \E ok \in BOOLEAN, size \in WindowSizes, errs \in Errs :
              EglMakeCurrent(ok, size, errs)
    \/ /\ pc = "setupTexSurface" /\ variant = "yuvtex"
       /\ \E strideY \in Strides(ext.width), lockOk, unlockOk, imgOk \in BOOLEAN,
             errs \in Errs :
              SetupYuvTexSurface(strideY, lockOk, unlockOk, imgOk, errs)
    \/ /\ pc = "setupTexSurface" /\ variant = "fbtex"
       /\ \E openOk, varOk, mapOk, lockOk, varOk2, unlockOk, imgOk, fault \in BOOLEAN,
             eintr \in Eintrs, info, info2 \in ScreenInfos, errs \in Errs :
              SetupFbTexSurface(openOk, eintr, varOk, info, mapOk,
                                lockOk, varOk2, info2, unlockOk, imgOk, fault, errs)
    \/ /\ pc = "setupGraphics"
       /\ \E fail \in SetupFailures(variant), linkOk \in BOOLEAN, errs \in Errs :
             \E found \in FoundSets(variant, linkOk) :
                 SetupGraphics(fail, linkOk, found, errs)

\* the frame loop, explored for MaxFrames frames
RenderFrame ==
    /\ frames < MaxFrames
    /\ \E errs \in Errs : RenderFrameStep(errs)

Loop ==
    \/ RenderFrame
    \/ /\ pc = "eglSwapBuffers"
       /\ \E ok \in BOOLEAN, errs \in Errs : EglSwapBuffers(ok, errs)
    \/ /\ pc = "fillFbTexture"
       /\ \E lockOk, varOk, unlockOk, fault \in BOOLEAN, eintr \in Eintrs,
             info \in ScreenInfos :
              FillFbTexture(lockOk, eintr, varOk, info, unlockOk, fault)

Next == Setup \/ Loop

Spec == Init /\ [][Next]_vars

(* ------------------------------------------------------------------ *)
(* The undisturbed run: every platform call succeeds, no error is      *)
(* queued, every shader name is active; the loop runs without a cap    *)
(* ------------------------------------------------------------------ *)

QuietSetup ==
    \/ EglGetDisplay(TRUE, 0)
    \/ EglInitialize(TRUE, 0)
    \/ SelectConfig(TRUE, 0)
    \/ EglCreateWindowSurface(TRUE, 0)
    \/ EglCreateContext(TRUE, 0)
    \/ \E size \in WindowSizes : EglMakeCurrent(TRUE, size, 0)
    \/ SetupYuvTexSurface(ext.width, TRUE, TRUE, TRUE, 0)
    \/ SetupFbTexSurface(TRUE, 0, TRUE, SmallScreen, TRUE,
                         TRUE, TRUE, SmallScreen, TRUE, TRUE, FALSE, 0)
    \/ SetupGraphics("none", TRUE, HandleNames(variant), 0)

QuietLoop ==
    \/ RenderFrameStep(0)
    \/ EglSwapBuffers(TRUE, 0)
    \/ FillFbTexture(TRUE, 0, TRUE, SmallScreen, TRUE, FALSE)

NextAnim == QuietSetup \/ QuietLoop

SpecAnim == Init /\ [][NextAnim]_vars

(* ------------------------------------------------------------------ *)
(* The synthetic image over a range of sizes: setup up to and          *)
(* including setupYuvTexSurface                                        *)
(* ------------------------------------------------------------------ *)

\* image sizes: both dimensions at most 16, both above 16, mixed, odd,
\* and with blocks of 1, 2 and 3 pixels
YuvSizes ==
    { << 2, 2 >>, << 5, 3 >>, << 16, 16 >>, << 17, 4 >>, << 4, 34 >>,
      << 32, 32 >>, << 33, 17 >>, << 48, 32 >>, << 34, 50 >> }

InitYuv == InitWith({"yuvtex"}, YuvSizes)

NextYuv ==
    \/ EglGetDisplay(TRUE, 0)
    \/ EglInitialize(TRUE, 0)
    \/ SelectConfig(TRUE, 0)
    \/ EglCreateWindowSurface(TRUE, 0)
    \/ EglCreateContext(TRUE, 0)
    \/ \E size \in WindowSizes : EglMakeCurrent(TRUE, size, 0)
    \/ \E strideY \in Strides(ext.width), lockOk, unlockOk, imgOk \in BOOLEAN,
          errs \in Errs :
           SetupYuvTexSurface(strideY, lockOk, unlockOk, imgOk, errs)

SpecYuv == InitYuv /\ [][NextYuv]_vars

(* ------------------------------------------------------------------ *)
(* Properties                                                          *)
(* ------------------------------------------------------------------ *)

\* positions of main() inside the frame loop
LoopPcs == {"renderFrame", "eglSwapBuffers", "fillFbTexture"}

AttribOps == {"glEnableVertexAttribArray", "glVertexAttribPointer"}

DrawOps == {"glDrawElements", "glDrawArrays"}

RotationOps == << "createRotationX", "createRotationY", "createRotationZ" >>

IsRotation(c) == c.op \in {RotationOps[i] : i \in DOMAIN RotationOps}

IsDrawOrPresent(c) == c.op \in DrawOps \cup {"eglSwapBuffers"}

\* C1: in every variant, after each frame's increment-and-wrap step each of
\* angleX, angleY, angleZ is at least 0 and below 360 degrees
C1_AnglesInRange ==
    \A a \in {angleX, angleY, angleZ} :
        0 <= a /\ a < 360 * UnitsPerDegree(variant)

\* a frame of the live-capture variant after which all three angles have
\* wrapped back to 0 together
C1_AllWrapped ==
    /\ variant = "fbtex"
    /\ pc = "eglSwapBuffers"
    /\ angleX = 0 /\ angleY = 0 /\ angleZ = 0

\* C2 (as stated): in the offscreen variants, if the fill-color or the
\* texture-coordinate handle is -1 then no frame issues an enable or pointer
\* call with that handle
C2_MissingAttributeSkipped ==
    (variant \in FboVariants /\ pc \in LoopPcs) =>
        \A hnd \in {sh.iLocFillColor, sh.iLocTexCoord} :
            hnd = NotFound =>
                \A i \in DOMAIN calls :
                    calls[i].op \in AttribOps => calls[i].args[1] # hnd

\* the rotation calls of a frame: which rotation, and its argument
Rotations(cs) ==
    LET rs == SelectSeq(cs, IsRotation)
    IN  [i \in DOMAIN rs |-> << rs[i].op, rs[i].args[1] >>]

\* rotation calls of a two-pass frame with the given arguments
TwoPassRotations(off, main) ==
    [i \in 1 .. 3 |-> << RotationOps[i], off[i] >>]
        \o [i \in 1 .. 3 |-> << RotationOps[i], main[i] >>]

\* a step that is one renderFrame call of an offscreen variant
TwoPassFrame ==
    /\ variant \in FboVariants
    /\ pc = "renderFrame"
    /\ pc' = "eglSwapBuffers"

\* C3 (amended): within one frame the X-, Y- and Z-rotation arguments of the
\* offscreen pass are (-angleZ, -angleY, -angleX) and those of the main pass
\* are (angleX, angleY, angleZ)
C3_RotationArguments ==
    [][TwoPassFrame =>
         Rotations(calls') = TwoPassRotations(<< -angleZ, -angleY, -angleX >>,
                                              << angleX, angleY, angleZ >>)]_vars

\* C3 (as stated): the offscreen arguments are (-angleX, -angleY, -angleZ)
C3_NegatedInOrder ==
    [][TwoPassFrame =>
         Rotations(calls') = TwoPassRotations(<< -angleX, -angleY, -angleZ >>,
                                              << angleX, angleY, angleZ >>)]_vars

\* the second frame of the synthetic-image variant has been rendered from the
\* angles (3, 2, 1): its offscreen X-rotation got -1 and its main one 3
C3_SecondFrameRendered ==
    /\ variant = "yuvtex"
    /\ pc = "eglSwapBuffers"
    /\ << angleX, angleY, angleZ >> = << 6, 4, 2 >>
    /\ Rotations(calls)[1] = << "createRotationX", -1 >>
    /\ Rotations(calls)[4] = << "createRotationX", 3 >>

\* x XOR y of two bits
Xor(p, q) == (p + q) % 2

\* the luma sample the checkerboard has at (x, y) for an image of the given size
Checker(x, y, width, height) ==
    LET blockWidth  == IF width > 16 THEN width \div 16 ELSE 1
        blockHeight == IF height > 16 THEN height \div 16 ELSE 1
    IN  IF Xor((x \div blockWidth) % 2, (y \div blockHeight) % 2) = 0 THEN 191 ELSE 63

\* the synthetic fill has run: the buffer was locked and written
Filled == variant = "yuvtex" /\ \E i \in DOMAIN calls : calls[i].op = "unlock"

\* C4: after the synthetic fill the luma byte at every (x, y) of the image is
\* 191 if ((x/blockWidth)&1) XOR ((y/blockHeight)&1) is 0 and 63 otherwise,
\* for sizes above 16 (block = size/16) and at most 16 (block = 1)
C4_LumaCheckerboard ==
    Filled =>
        \A x \in 0 .. ext.width - 1, y \in 0 .. ext.height - 1 :
            ext.mem[yuvTexOffsetY + y * ext.stride + x]
                = Checker(x, y, ext.width, ext.height)

\* a filled 34 x 50 image (blocks of 2 x 3 pixels) in a padded buffer, with
\* all four parity combinations on the block diagonal and next to it
C4_BlocksFilled ==
    /\ Filled
    /\ ext.width = 34 /\ ext.height = 50 /\ ext.stride > ext.width
    /\ ext.mem[0] = 191
    /\ ext.mem[2] = 63
    /\ ext.mem[3 * ext.stride] = 63
    /\ ext.mem[3 * ext.stride + 2] = 191

\* the four vertices of face f
FaceVertices(f) == 4 * f .. 4 * f + 3

\* corners[i] is the set of vertices of triangle i of the strip ix
Corners(ix) == [i \in 1 .. Len(ix) - 2 |-> {ix[i], ix[i + 1], ix[i + 2]}]

\* the triangles that do not repeat an index
Proper(corners) == {i \in DOMAIN corners : Cardinality(corners[i]) = 3}

\* ofFace[f] is the set of proper triangles that use vertices of face f only
OfFace(corners, proper) ==
    [f \in 0 .. 5 |-> {i \in proper : corners[i] \subseteq FaceVertices(f)}]

\* triangle i lies between the triangles of two consecutive faces and uses
\* vertices of those faces only
AtFaceBoundary(i, corners, ofFace) ==
    \E f \in 0 .. 4 :
        /\ ofFace[f] # {} /\ \A j \in ofFace[f] : j < i
        /\ ofFace[f + 1] # {} /\ \A k \in ofFace[f + 1] : k > i
        /\ corners[i] \subseteq FaceVertices(f) \cup FaceVertices(f + 1)

\* every triangle that repeats an index lies at a face boundary; every other
\* triangle uses vertices of one face only; each face has exactly 2 such
\* triangles, which together use its 4 vertices
SixQuads(corners, proper, ofFace) ==
    /\ \A i \in DOMAIN corners \ proper : AtFaceBoundary(i, corners, ofFace)
    /\ \A i \in proper : \E f \in 0 .. 5 : i \in ofFace[f]
    /\ \A f \in 0 .. 5 :
           /\ Cardinality(ofFace[f]) = 2
           /\ UNION {corners[i] : i \in ofFace[f]} = FaceVertices(f)

\* the strip references exactly the 24 vertices and decodes to six quads
SixQuadStrip(ix) ==
    /\ {ix[i] : i \in DOMAIN ix} = 0 .. cubeVertexCount - 1
    /\ SixQuads(Corners(ix), Proper(Corners(ix)),
                OfFace(Corners(ix), Proper(Corners(ix))))

\* the index list of Cube.h decodes to six quads
CubeStripIsSixQuads == SixQuadStrip(cubeIndices)

\* the index lists drawn by the glDrawElements calls of the renderFrame call
\* that has just returned
StripsDrawn ==
    IF pc = "eglSwapBuffers"
    THEN {calls[i].args[3] :
              i \in {j \in DOMAIN calls : calls[j].op = "glDrawElements"}}
    ELSE {}

\* C5: the indices every glDrawElements call draws, decoded as one triangle
\* strip, reference exactly 0..23, are degenerate only at face boundaries and
\* form exactly 6 quads of 2 triangles, each from the 4 vertices of one face
C5_StripIsSixQuads ==
    /\ \A i \in DOMAIN calls :
           calls[i].op = "glDrawElements" =>
               /\ calls[i].args[1] = "GL_TRIANGLE_STRIP"
               /\ calls[i].args[2] = Len(calls[i].args[3])
    /\ \A ix \in StripsDrawn : ix = cubeIndices /\ CubeStripIsSixQuads

\* a frame has drawn the strip in both passes
C5_StripDrawn ==
    /\ pc = "eglSwapBuffers"
    /\ Cardinality({i \in DOMAIN calls : calls[i].op = "glDrawElements"
                                          /\ Len(calls[i].args[3]) = 34}) = 2

\* C6 (amended): main() returns 0 exactly when obtaining the display handle or
\* initialising the display fails, and 1 on every later setup failure it
\* detects
C6_ExitStatus ==
    pc = "exited" =>
        /\ failedAt # "none"
        /\ exitStatus = 0 <=> failedAt \in {"eglGetDisplay", "eglInitialize"}
        /\ exitStatus = 1 <=> failedAt \notin {"eglGetDisplay", "eglInitialize"}

\* C6 (as stated): main() returns 0 exactly when obtaining the display handle
\* fails and 1 on every later setup failure
C6_ZeroOnlyWithoutDisplay ==
    pc = "exited" =>
        /\ exitStatus = 0 <=> failedAt = "eglGetDisplay"
        /\ exitStatus = 1 <=> failedAt # "eglGetDisplay"

\* main() has returned 0 because eglInitialize failed
C6_InitializeFailed ==
    pc = "exited" /\ failedAt = "eglInitialize" /\ exitStatus = 0

\* no draw and no present call among the given calls
NoDrawOrPresent(cs) == \A i \in DOMAIN cs : ~IsDrawOrPresent(cs[i])

\* a step of main() in which display acquisition, display initialisation,
\* configuration selection, surface creation, context creation, make-current,
\* shader compilation, program creation or the framebuffer-completeness
\* check fails
SetupFailureStep ==
    \E errs \in Errs :
        \/ EglGetDisplay(FALSE, errs)
        \/ EglInitialize(FALSE, errs)
        \/ SelectConfig(FALSE, errs)
        \/ EglCreateWindowSurface(FALSE, errs)
        \/ EglCreateContext(FALSE, errs)
        \/ \E size \in WindowSizes : EglMakeCurrent(FALSE, size, errs)
        \/ \E fail \in SetupFailures(variant) \ {"none"} :
               SetupGraphics(fail, TRUE, HandleNames(variant), errs)

\* C7: when one of those stages fails, main() returns in that step having
\* written at least one diagnostic line, no draw or present call has been
\* issued, and the process takes no step after the return
C7_SetupFailureIsFatal ==
    [][/\ SetupFailureStep =>
             (pc' = "exited" /\ nlog' >= 1 /\ NoDrawOrPresent(calls'))
       /\ pc # "exited"]_vars

\* main() has returned because the current-context binding failed
C7_MakeCurrentFailed ==
    /\ pc = "exited"
    /\ failedAt = "eglMakeCurrent"
    /\ nlog >= 1
    /\ calls[Len(calls)].op = "eglMakeCurrent"

\* C8 (as stated): once a frame has been rendered the process is in the loop,
\* whatever the render, present, error-check and lock/copy/unlock outcomes
C8_LoopNeverLeft == frames > 0 => pc \in LoopPcs

\* the draw and present calls of the current iteration, with the framebuffer
\* bound when each was issued
DrawsAndPresents ==
    LET ds == SelectSeq(calls, IsDrawOrPresent)
    IN  [i \in DOMAIN ds |-> << ds[i].op, ds[i].at.fbo >>]

\* what an iteration issues up to and including its present call
IterationCalls ==
    IF variant \in FboVariants
    THEN << << "glDrawElements", res.iFBO >>, << "glDrawElements", 0 >>,
            << "eglSwapBuffers", 0 >> >>
    ELSE << << "glDrawArrays", 0 >>, << "eglSwapBuffers", 0 >> >>

\* C9: every loop iteration of an offscreen variant issues exactly two draw
\* calls, the first with the framebuffer object bound and the second with
\* the window surface bound, and then exactly one present call; an iteration
\* of gl2_cube.cpp issues exactly one draw call and then one present call
C9_DrawsThenPresent ==
    /\ variant \in FboVariants /\ pc \in LoopPcs => res.iFBO # 0
    /\ pc = "eglSwapBuffers" =>
           DrawsAndPresents = SubSeq(IterationCalls, 1, Len(IterationCalls) - 1)
    /\ (frames > 0 /\ pc \in {"renderFrame", "fillFbTexture"}) =>
           DrawsAndPresents = IterationCalls

\* an iteration of an offscreen variant is complete: two draws and a present
C9_TwoPassIterationDone ==
    /\ variant \in FboVariants
    /\ frames > 0
    /\ pc = "renderFrame"
    /\ Len(DrawsAndPresents) = 3
    /\ DrawsAndPresents[1][2] # 0

\* C10 (as stated): a program that failed to link never reaches the frame loop
C10_LinkFailureIsFatal == gl.linked = "failed" => pc \notin LoopPcs

\* C11 (as stated): in every variant a position handle that resolved to -1
\* ends the run in setupGraphics: the frame loop is not entered, and no
\* vertex-attribute call carries that handle and no draw call is issued
C11_MissingPositionIsFatal ==
    /\ pc \in LoopPcs => sh.iLocPosition # NotFound
    /\ sh.iLocPosition = NotFound =>
           \A i \in DOMAIN calls :
               /\ calls[i].op \in AttribOps => calls[i].args[1] # NotFound
               /\ calls[i].op \notin DrawOps

UniformOps == {"glUniform1f", "glUniform1i", "glUniformMatrix4fv"}

\* C12 (as stated): in the offscreen variants, if the texture-mix, sampler,
\* projection or model-view handle is -1 then no uniform upload is issued with
\* that handle, neither by setupGraphics nor by any pass of any frame
C12_MissingUniformSkipped ==
    variant \in FboVariants =>
        \A hnd \in {sh.iLocTextureMix, sh.iLocTexture,
                    sh.iLocProjection, sh.iLocModelview} :
            hnd = NotFound =>
                \A i \in DOMAIN calls :
                    calls[i].op \in UniformOps => calls[i].args[1] # hnd

\* number of calls of the given operation among the given calls
Count(cs, op) == Cardinality({i \in DOMAIN cs : cs[i].op = op})

\* the statements of the fill/import function at which it returns early
FillFailures == {"lock", "unlock", "eglCreateImageKHR"}

\* a step in which the synthetic fill/import fails at the lock, at the unlock
\* or at image creation
YuvFillFailureStep ==
    /\ variant = "yuvtex"
    /\ pc = "setupTexSurface"
    /\ ext'.returned \in FillFailures

\* a step in which the live-capture fill/import fails at the lock, at the
\* unlock or (first fill only) at image creation
FbFillFailureStep ==
    /\ variant = "fbtex"
    /\ pc \in {"setupTexSurface", "fillFbTexture"}
    /\ ext'.returned \in FillFailures

\* the failed call is not issued again
NotRetried(cs) ==
    /\ Count(cs, "lock") = 1
    /\ Count(cs, "unlock") <= 1
    /\ Count(cs, "eglCreateImageKHR") <= 1

IsImport(c) ==
    \/ c.op \in {"eglCreateImageKHR", "glEGLImageTargetTexture2DOES"}
    \/ c.op = "glBindTexture" /\ c.args[1] = "GL_TEXTURE_EXTERNAL_OES"

\* the same with the generation of the texture name
IsImportOrGen(c) == IsImport(c) \/ c.op = "glGenTextures"

\* the calls of a fill that does not import
FillOps == {"lock", "ioctl", "memcpy", "unlock"}

\* the calls of the given kind among the given calls, as operation names
OpsOf(cs, Kind(_)) ==
    LET sel == SelectSeq(cs, Kind)
    IN  [i \in DOMAIN sel |-> sel[i].op]

\* the import calls of one import, in order
ImportOps ==
    << "eglCreateImageKHR", "glGenTextures", "glBindTexture",
       "glEGLImageTargetTexture2DOES" >>

\* C14: in the live-capture variant the buffer is imported (image creation,
\* texture generation, bind to the external target) at most once, by the
\* first fill; every per-frame fill issues only lock, geometry query, copy
\* and unlock calls; no step of the loop reassigns fbTex
C14_ImportedOnce ==
    [][variant = "fbtex" =>
         /\ pc = "setupTexSurface" =>
                OpsOf(calls', IsImportOrGen) \in {<<>>, << "eglCreateImageKHR" >>, ImportOps}
         /\ pc = "setupGraphics" =>
                /\ OpsOf(calls', IsImport) = OpsOf(calls, IsImport)
                /\ res'.fbTex = res.fbTex
         /\ pc = "renderFrame" => OpsOf(calls', IsImportOrGen) = <<>>
         /\ pc = "fillFbTexture" =>
                /\ SubSeq(calls', 1, Len(calls)) = calls
                /\ \A i \in Len(calls) + 1 .. Len(calls') : calls'[i].op \in FillOps
         /\ pc \in LoopPcs => (res'.fbTex = res.fbTex /\ gl'.texExt = gl.texExt)]_vars

\* a per-frame fill has locked, copied and unlocked, and fbTex is still the
\* texture the first fill imported
C14_RefilledWithoutImport ==
    /\ variant = "fbtex"
    /\ pc = "renderFrame"
    /\ frames > 0
    /\ ext.returned = "end"
    /\ Count(calls, "memcpy") = 1
    /\ res.fbTex # 0
    /\ gl.texExt = res.fbTex

\* C15: in the offscreen variants, after a successful setupGraphics and at
\* every present call the bound framebuffer is the window surface (0) and the
\* viewport is the window's (w, h), not the 256 x 256 of the offscreen texture
C15_WindowTargetRestored ==
    variant \in FboVariants =>
        /\ pc \in LoopPcs =>
               /\ gl.fbo = 0
               /\ gl.viewport = << w, h >>
               /\ gl.viewport # << FBO_WIDTH, FBO_HEIGHT >>
        /\ \A i \in DOMAIN calls :
               calls[i].op = "eglSwapBuffers" =>
                   (calls[i].at.fbo = 0 /\ calls[i].at.viewport = << w, h >>)

\* a frame has been drawn into the framebuffer object with the viewport at
\* the size of its texture, and then presented
C15_PresentedAfterOffscreenPass ==
    /\ variant \in FboVariants
    /\ pc \in {"renderFrame", "fillFbTexture"}
    /\ frames > 0
    /\ \E i, j, k \in DOMAIN calls :
           /\ i < j /\ j < k
           /\ calls[i].op = "glViewport" /\ calls[i].args = << FBO_WIDTH, FBO_HEIGHT >>
           /\ calls[j].op = "glDrawElements" /\ calls[j].at.fbo = res.iFBO
           /\ calls[j].at.viewport = << FBO_WIDTH, FBO_HEIGHT >>
           /\ calls[k].op = "eglSwapBuffers"

IsDrawElements(c) == c.op = "glDrawElements"

\* the value of the uniform at the given location when each glDrawElements
\* call of the current iteration was issued
UniformAtDraws(location) ==
    LET ds == SelectSeq(calls, IsDrawElements)
    IN  [i \in DOMAIN ds |-> ds[i].at.uniform[location]]

\* the given upload is among the calls issued so far
Uploaded(op, location, value) ==
    \E i \in DOMAIN calls : calls[i].op = op /\ calls[i].args = << location, value >>

\* C16: in the offscreen variants with the texture-mix uniform present, the
\* factor is 0 at the offscreen draw call and 1 at the main draw call of
\* every frame; after setup and before the first frame it is 0, uploaded by
\* setupGraphics, and so is the sampler uniform if that is present
C16_TextureMixPerPass ==
    (variant \in FboVariants /\ pc \in LoopPcs /\ sh.iLocTextureMix # NotFound) =>
        /\ (pc = "renderFrame" /\ frames = 0) =>
               /\ gl.uniform[sh.iLocTextureMix] = 0
               /\ Uploaded("glUniform1f", sh.iLocTextureMix, 0)
               /\ sh.iLocTexture # NotFound =>
                      /\ gl.uniform[sh.iLocTexture] = 0
                      /\ Uploaded("glUniform1i", sh.iLocTexture, 0)
        /\ (pc = "eglSwapBuffers" \/ frames > 0) =>
               UniformAtDraws(sh.iLocTextureMix) = << 0, 1 >>

\* the second frame has been rendered: its offscreen draw found the factor,
\* left at 1 by the first frame, back at 0
C16_SecondFrameMixed ==
    /\ variant \in FboVariants
    /\ pc = "eglSwapBuffers"
    /\ frames = 2
    /\ sh.iLocTextureMix # NotFound
    /\ gl.uniform[sh.iLocTextureMix] = 1
    /\ UniformAtDraws(sh.iLocTextureMix)[1] = 0

\* the calls that write the external buffer, render from it or present
IsWriteDrawOrPresent(c) ==
    c.op \in {"lock", "memcpy", "unlock", "glDrawElements", "eglSwapBuffers"}

\* what stands between one render pass of the live-capture variant and the
\* next: the pass, the present call, then the fill
FrameThenFill(fill) ==
    << "glDrawElements", "glDrawElements", "eglSwapBuffers" >> \o fill

\* the write calls of a fill that returned at the given statement
FillCalls(returned) ==
    IF returned = "lock" THEN << "lock" >> ELSE << "lock", "memcpy", "unlock" >>

\* C17 (as stated): whenever a render pass of the live-capture variant
\* starts, the buffer has been written by a fill that completed lock, copy
\* and unlock
C17_WrittenBeforeRender ==
    (variant = "fbtex" /\ pc = "renderFrame") =>
        (ext.returned \in {"end", "eglCreateImageKHR"} /\ ~ext.locked)

\* C17 (amended): every render pass of the live-capture variant starts after
\* the preceding fill call has returned (the fill of setup before the first
\* pass; afterwards the fill that follows the previous pass and present); that
\* fill completed lock, copy and unlock unless its lock or unlock failed, and
\* no write call is issued while the pass runs
C17_FillReturnedBeforeRender ==
    variant = "fbtex" =>
        /\ pc = "renderFrame" =>
               /\ ext.returned # "none"
               /\ OpsOf(calls, IsWriteDrawOrPresent)
                      = (IF frames = 0 THEN FillCalls(ext.returned)
                                       ELSE FrameThenFill(FillCalls(ext.returned)))
               /\ ext.returned \in {"end", "eglCreateImageKHR"} => ~ext.locked
               /\ ext.returned = "unlock" => ext.locked
        /\ pc = "eglSwapBuffers" =>
               OpsOf(calls, IsWriteDrawOrPresent) = << "glDrawElements", "glDrawElements" >>

\* the first iteration of the live-capture variant is complete: pass, present,
\* then a fill that locked, copied and unlocked
C17_FilledAfterPresent ==
    /\ variant = "fbtex"
    /\ pc = "renderFrame"
    /\ frames = 1
    /\ ext.returned = "end"
    /\ OpsOf(calls, IsWriteDrawOrPresent)
           = << "glDrawElements", "glDrawElements", "eglSwapBuffers",
                "lock", "memcpy", "unlock" >>

\* the last three rotation calls among the given calls: those of the pass
\* to the window
WindowRotations(cs) ==
    LET rs == Rotations(cs)
    IN  SubSeq(rs, Len(rs) - 2, Len(rs))

\* the rotation calls of a pass that rotates by the given angles
RotationsBy(ax, ay, az) ==
    << << "createRotationX", ax >>, << "createRotationY", ay >>,
       << "createRotationZ", az >> >>

\* the angle that follows a in a variant whose step is d units
Advanced(a, d) == (a + d) % (360 * UnitsPerDegree(variant))

\* C18 (amended): in every iteration of every variant the render call first
\* rotates by the angles as the previous iteration left them, then advances
\* them by the fixed increments and wraps them; the present call follows
\* the render call and leaves the angles alone
C18_RenderAdvancePresent ==
    [][/\ pc = "renderFrame" =>
              /\ pc' = "eglSwapBuffers"
              /\ WindowRotations(calls') = RotationsBy(angleX, angleY, angleZ)
              /\ Count(calls', "eglSwapBuffers") = 0
              /\ angleX' = Advanced(angleX, 3)
              /\ angleY' = Advanced(angleY, 2)
              /\ angleZ' = Advanced(angleZ, 1)
       /\ pc \in {"eglSwapBuffers", "fillFbTexture"} =>
              UNCHANGED << angleX, angleY, angleZ >>
       /\ pc = "eglSwapBuffers" =>
              /\ Len(calls') = Len(calls) + 1
              /\ calls'[Len(calls')].op = "eglSwapBuffers"]_vars

\* C18 (as stated): the pass to the window rotates by the angles the
\* iteration has advanced to
C18_AdvancedBeforeRender ==
    [][pc = "renderFrame" =>
           WindowRotations(calls') = RotationsBy(angleX', angleY', angleZ')]_vars

\* gl2_cube.cpp has rendered its second frame by (3, 2, 1) and has advanced
\* the angles to (6, 4, 2) before the frame is presented
C18_SecondCubeFrame ==
    /\ variant = "cube"
    /\ pc = "eglSwapBuffers"
    /\ Rotations(calls) = RotationsBy(3, 2, 1)
    /\ << angleX, angleY, angleZ >> = << 6, 4, 2 >>

\* the glDrawElements calls among the given calls
DrawElements(cs) == SelectSeq(cs, IsDrawElements)

\* C19: in the variant whose main pass samples the offscreen texture, every
\* frame draws once into the framebuffer object whose colour output is that
\* texture, and the main pass of the same frame then samples that texture
\* holding the image of this frame, not the one an earlier frame left
C19_SameFrameTexture ==
    [][(variant = "yuvtex" /\ pc = "renderFrame") =>
           /\ Len(DrawElements(calls')) = 2
           /\ Count(calls', "glTexImage2D") = 0
           /\ DrawElements(calls')[1].at.fbo = res.iFBO
           /\ DrawElements(calls')[1].at.attached = res.iFBOTex
           /\ DrawElements(calls')[1].at.fboImage = gl.fboImage
           /\ gl.fboImage # << angleX, angleY, angleZ >>
           /\ DrawElements(calls')[2].at.fbo = 0
           /\ DrawElements(calls')[2].at.tex2D = res.iFBOTex
           /\ DrawElements(calls')[2].at.fboImage = << angleX, angleY, angleZ >>]_vars

\* the main pass of the second frame has sampled the image its own offscreen
\* pass drew over the image of the first frame
C19_SecondFrameSampled ==
    /\ variant = "yuvtex"
    /\ pc = "eglSwapBuffers"
    /\ frames = 2
    /\ DrawElements(calls)[1].at.fboImage = << 0, 0, 0 >>
    /\ DrawElements(calls)[2].at.fboImage = << 3, 2, 1 >>
    /\ DrawElements(calls)[2].at.tex2D = res.iFBOTex

\* the calls by which each component is set up
DisplayOps ==
    {"eglGetDisplay", "eglInitialize", "android_createDisplaySurfaceEx",
     "selectConfigForNativeWindow", "eglCreateWindowSurface", "eglCreateContext",
     "eglMakeCurrent", "eglQuerySurface"}

ProgramOps ==
    {"glCreateProgram", "glCreateShader", "glShaderSource", "glCompileShader",
     "glAttachShader", "glLinkProgram", "glUseProgram", "glEnableVertexAttribArray"}
        \cup UniformOps

ExternalOps ==
    {"new GraphicBuffer", "getStride", "open", "ioctl", "mmap", "lock", "memcpy",
     "unlock", "eglCreateImageKHR", "glEGLImageTargetTexture2DOES",
     "eglDestroyImageKHR"}

OffscreenOps ==
    {"glTexImage2D", "glGenFramebuffers", "glBindFramebuffer",
     "glFramebufferTexture2D", "glCheckFramebufferStatus"}

\* the calls that create what setup creates
CreationOps ==
    DisplayOps \cup {"glCreateProgram", "glLinkProgram", "new GraphicBuffer",
                     "eglCreateImageKHR", "glTexImage2D", "glGenFramebuffers"}

\* where the calls of a component stand among the given calls
Positions(cs, ops) == {i \in DOMAIN cs : cs[i].op \in ops}

\* the component with calls a is set up, and completely before the first
\* call of the calls b
SetUpBefore(cs, a, b) ==
    /\ Positions(cs, a) # {}
    /\ \A i \in Positions(cs, a), j \in Positions(cs, b) : i < j

\* main() is about to call renderFrame for the first time
LoopEntry == pc = "renderFrame" /\ frames = 0

\* C20 (amended): when the loop is entered, Display/Surface Setup has
\* completed before everything else; in the offscreen variants the External
\* Image Source has then been set up before the Offscreen Target, and the
\* Offscreen Target before the Program/Shader Binder ran; nothing has been
\* drawn or presented, and no iteration of the loop creates anything again
C20_SetupOrder ==
    /\ LoopEntry =>
           /\ SetUpBefore(calls, DisplayOps, ExternalOps \cup OffscreenOps \cup ProgramOps)
           /\ Positions(calls, ProgramOps) # {}
           /\ NoDrawOrPresent(calls)
           /\ variant \in FboVariants =>
                  /\ SetUpBefore(calls, ExternalOps, OffscreenOps \cup ProgramOps)
                  /\ SetUpBefore(calls, OffscreenOps, ProgramOps)
    /\ (pc \in LoopPcs /\ ~LoopEntry) => Positions(calls, CreationOps) = {}

\* C20 (as stated): when the loop is entered, Display/Surface Setup has
\* completed before the Program/Shader Binder ran, and the Program/Shader
\* Binder before the External Image Source and the Offscreen Target were
\* set up
C20_BinderBeforeSources ==
    LoopEntry =>
        /\ SetUpBefore(calls, DisplayOps, ProgramOps)
        /\ SetUpBefore(calls, ProgramOps, ExternalOps \cup OffscreenOps)

\* the live-capture variant enters the loop with the buffer imported, the
\* framebuffer object created and the program built
C20_EverythingSetUp ==
    /\ LoopEntry
    /\ variant = "fbtex"
    /\ res.fbTex # 0
    /\ res.iFBO # 0
    /\ sh.programID # 0
    /\ gl.linked = "ok"

\* the same call: the same operation with the same arguments
SameCall(c, d) == c.op = d.op /\ c.args = d.args

\* the calls that report failure through their return value or through a
\* status the program queries
ReportingOps ==
    {"eglGetDisplay", "eglInitialize", "selectConfigForNativeWindow",
     "eglCreateWindowSurface", "eglCreateContext", "eglMakeCurrent",
     "eglQuerySurface", "eglSwapBuffers", "glCreateProgram", "glCreateShader",
     "glCompileShader", "glCheckFramebufferStatus", "open", "ioctl", "mmap",
     "lock", "unlock", "eglCreateImageKHR"}

\* positions at which such a call, just issued, is issued again
Reissued(cs) ==
    {i \in 1 .. Len(cs) - 1 : cs[i].op \in ReportingOps /\ SameCall(cs[i], cs[i + 1])}

\* the calls from position i on repeat the call at i at least n more times
ReissuedTimes(cs, i, n) ==
    /\ i + n <= Len(cs)
    /\ \A k \in 1 .. n : SameCall(cs[i], cs[i + k])

\* the stages of main() that fail in one platform call named like the stage
SingleCallStages ==
    {"eglGetDisplay", "eglInitialize", "eglCreateWindowSurface", "eglCreateContext",
     "eglMakeCurrent", "glCreateProgram"}

\* C21 (amended): no call is issued again after it reported failure, except
\* the ioctl of the framebuffer-device wrapper, which is issued again each
\* time it is interrupted and only then; the call whose failure ends main()
\* was issued once
C21_OnlyInterruptedIoctlReissued ==
    /\ \A i \in Reissued(calls) : calls[i].op = "ioctl"
    /\ \A i \in DOMAIN calls : ~ReissuedTimes(calls, i, MaxEintr + 1)
    /\ (pc = "exited" /\ failedAt \in SingleCallStages) => Count(calls, failedAt) = 1
    /\ pc \in LoopPcs \ {"renderFrame"} => Count(calls, "eglSwapBuffers") <= 1

\* C21 (as stated): no call is ever issued again, the ioctl of the
\* framebuffer-device wrapper included
C21_NothingReissued == Reissued(calls) = {}

\* a per-frame fill whose geometry query was interrupted has issued the same
\* ioctl twice and has gone on to copy
C21_QueryReissued ==
    /\ variant = "fbtex"
    /\ pc = "renderFrame"
    /\ frames > 0
    /\ Count(calls, "ioctl") = 2
    /\ Reissued(calls) # {}
    /\ Count(calls, "memcpy") = 1

\* what a function leaves behind apart from the lines it wrote and the
\* error-queue queries it made
Effect(m) == [ gl |-> m.gl, calls |-> m.calls ]

\* the outcome of a function that yields a machine among other results
Outcome(x) == [x EXCEPT !.m = Effect(x.m)]

\* the calls each stage of main() up to the context binding issues, by
\* whether the stage succeeded, and the present call of the loop
StageCalls(stage, ok) ==
    CASE stage = "selectConfig" ->
             << "android_createDisplaySurfaceEx", "selectConfigForNativeWindow" >>
      [] stage = "eglMakeCurrent" /\ ok ->
             << "eglMakeCurrent", "eglQuerySurface", "eglQuerySurface",
                "glGetString", "glGetString", "glGetString", "glGetString" >>
      [] OTHER -> << stage >>

\* the operation names of the calls from position n + 1 on
OpsFrom(cs, n) == [i \in 1 .. Len(cs) - n |-> cs[n + i].op]

\* the checks write lines and query the error queue, nothing else, and query
\* it once more than it holds error codes
ChecksOnlyLog ==
    \A e \in Errs, returnVal \in BOOLEAN :
        /\ Effect(checkGlError(Machine, e)) = Effect(Machine)
        /\ Effect(checkEglError(Machine, returnVal, e)) = Effect(Machine)
        /\ checkGlError(Machine, e).queries = e + 1
        /\ checkEglError(Machine, returnVal, e).queries = e + 1

\* the stages of main() that issue display calls only
DisplayStages ==
    {"eglGetDisplay", "eglInitialize", "selectConfig", "eglCreateWindowSurface",
     "eglCreateContext", "eglMakeCurrent"}

\* setupGraphics, setupYuvTexSurface, openFbDevice + fillFbTexture and
\* renderFrame leave the same calls, GL state, globals and return value
\* whatever number of error codes their checks find queued, for every
\* answer the platform can give to their other calls
SameWithoutErrors ==
    /\ pc = "setupGraphics" =>
           \A fail \in SetupFailures(variant), linkOk \in BOOLEAN :
               \A found \in FoundSets(variant, linkOk) :
                   (fail # "none" => (linkOk /\ found = HandleNames(variant))) =>
                       LET quiet == Outcome(setupGraphics(Machine, sh, res, variant,
                                                          fail, linkOk, found, 0))
                       IN  \A e \in Errs \ {0} :
                               Outcome(setupGraphics(Machine, sh, res, variant,
                                                     fail, linkOk, found, e)) = quiet
    /\ (pc = "setupTexSurface" /\ variant = "yuvtex") =>
           \A strideY \in Strides(ext.width), lockOk, unlockOk, imgOk \in BOOLEAN :
               LET quiet == Outcome(setupYuvTexSurface(Machine, ext, strideY,
                                                       lockOk, unlockOk, imgOk, 0))
               IN  \A e \in Errs \ {0} :
                       Outcome(setupYuvTexSurface(Machine, ext, strideY,
                                                  lockOk, unlockOk, imgOk, e)) = quiet
    /\ (pc = "setupTexSurface" /\ variant = "fbtex") =>
           \A openOk, varOk, mapOk \in BOOLEAN, eintr \in Eintrs, info \in ScreenInfos :
               LET o == openFbDevice(Machine, ext, openOk, eintr, varOk, info, mapOk)
               IN  OpenAnswers(openOk, varOk, info, mapOk, o.e.scrSize) =>
                       \A lockOk, varOk2, unlockOk, imgOk \in BOOLEAN, info2 \in ScreenInfos :
                           DeviceAnswers(o.e, lockOk, eintr, varOk2, info2, unlockOk) =>
                               LET quiet == Outcome(fillFbTexture(o.m, o.e, res.fbTex, TRUE,
                                                lockOk, eintr, varOk2, info2, unlockOk, imgOk, 0))
                               IN  \A e \in Errs \ {0} :
                                       Outcome(fillFbTexture(o.m, o.e, res.fbTex, TRUE,
                                                lockOk, eintr, varOk2, info2, unlockOk, imgOk, e))
                                           = quiet
    /\ pc = "renderFrame" =>
           LET m0 == [Machine EXCEPT !.calls = <<>>]
               quiet == Effect(renderFrame(m0, sh, res, variant,
                                           angleX, angleY, angleZ, w, h, 0))
           IN  \A e \in Errs \ {0} :
                   Effect(renderFrame(m0, sh, res, variant,
                                      angleX, angleY, angleZ, w, h, e)) = quiet

\* C22: checkGlError and checkEglError only log: they change neither the GL
\* state nor the calls issued and end after one query more than there are
\* queued error codes; every function whose checks find errors queued issues
\* the same calls and returns the same result as without errors; and each
\* display stage and the present call has issued exactly its own calls
\* whatever was logged
C22_ChecksNeverChangeControlFlow ==
    /\ ChecksOnlyLog
    /\ SameWithoutErrors
    /\ \A stage \in DisplayStages :
           /\ (pc = "exited" /\ failedAt = stage) =>
                  OpsFrom(calls, Len(calls) - Len(StageCalls(stage, FALSE)))
                      = StageCalls(stage, FALSE)
    /\ pc \in {"renderFrame", "fillFbTexture"} /\ frames > 0 =>
           Count(calls, "eglSwapBuffers") = 1

\* a frame of an offscreen variant has been rendered with an error code queued
\* at every check, and has issued its two draw calls
C22_FrameWithErrorsLogged ==
    /\ variant \in FboVariants
    /\ pc = "eglSwapBuffers"
    /\ nlog = 9
    /\ queries = 18
    /\ Len(DrawElements(calls)) = 2

\* the shader program handle with the attribute and uniform handles, and the
\* handles of the offscreen target and its texture
Handles(s, r) == << s, r.iFBO, r.iFBOTex >>

\* C23: the program handle, the attribute and uniform handles and the
\* offscreen target and texture handles are assigned by setupGraphics only:
\* every other step of main(), and so every step of the frame loop (render
\* passes, present, per-frame fill), leaves them unchanged
C23_HandlesSetOnlyInSetup ==
    [][pc # "setupGraphics" => Handles(sh', res') = Handles(sh, res)]_vars

\* two frames of the live-capture variant have been rendered, presented and
\* followed by a fill, with every handle resolved
C23_HandlesAfterTwoFrames ==
    /\ variant = "fbtex"
    /\ pc = "renderFrame"
    /\ frames = 2
    /\ sh.programID # 0
    /\ \A hnd \in {sh.iLocPosition, sh.iLocFillColor, sh.iLocTexCoord, sh.iLocTextureMix,
                   sh.iLocTexture, sh.iLocProjection, sh.iLocModelview} : hnd # NotFound
    /\ res.iFBO # 0
    /\ res.iFBOTex # 0

\* C24 (as stated): every glBindTexture call binds a texture name to the
\* target the name was first bound to; the external-image texture is never
\* bound to GL_TEXTURE_2D; and the texture the main pass binds is the one its
\* draw call samples through the 2D sampler of the shader
C24_BoundToFirstTargetOnly ==
    /\ \A i \in DOMAIN calls :
           (calls[i].op = "glBindTexture" /\ calls[i].args[2] # 0) =>
               /\ gl.texTarget[calls[i].args[2]] = calls[i].args[1]
               /\ calls[i].args[2] \in {res.fbTex, res.yuvTex} =>
                      calls[i].args[1] = "GL_TEXTURE_EXTERNAL_OES"
    /\ (variant \in FboVariants /\ pc = "eglSwapBuffers") =>
           DrawElements(calls)[2].at.tex2D = MainTexture(variant, res)

\* the copies issued so far in this part of the run: source offset and length
Copies == {calls[i].args : i \in {j \in DOMAIN calls : calls[j].op = "memcpy"}}

\* C25 (as stated): in the live-capture variant, whatever geometry the
\* device reports, no copy is longer than the destination buffer of
\* 640 x 240 RGB565 pixels
C25_CopyFitsDestination ==
    variant = "fbtex" =>
        \A c \in Copies : c[2] <= fbTexWidth * fbTexHeight * 2

\* C26 (as stated): in the live-capture variant, every copy of a non-zero
\* number of bytes reads from a device that was opened and mapped, and its
\* source range lies within the mapped length
C26_SourceRangeReadable ==
    variant = "fbtex" =>
        \A c \in Copies :
            c[2] > 0 =>
                /\ ext.fd >= 0
                /\ ext.pFbBuf = "mapped"
                /\ c[1] + c[2] <= ext.scrSize

\* the fill/import function has run in the calls recorded and has returned
FillReturned == pc # "crashed" /\ Count(calls, "lock") > 0

\* every lock that succeeded is followed by exactly one unlock, issued
\* before any import call, and a lock that failed by none
UnlockedOnce ==
    FillReturned =>
        /\ Count(calls, "lock") = 1
        /\ Count(calls, "unlock") = (IF ext.returned = "lock" THEN 0 ELSE 1)
        /\ \A i \in Positions(calls, {"unlock"}) :
               /\ \E j \in Positions(calls, {"lock"}) : j < i
               /\ \A k \in DOMAIN calls : IsImport(calls[k]) => i < k

\* the buffer is not locked when a render pass or a present call is issued
NotLockedWhileDrawn == pc \in {"renderFrame", "eglSwapBuffers"} => ~ext.locked

\* C27 (as stated): in both external-image variants lock and unlock are
\* strictly paired: a successful lock is followed by exactly one unlock before
\* the function returns and before any import, a failed lock by no unlock, and
\* the buffer is never locked while a render pass or a present call is issued
C27_LockUnlockPaired ==
    variant \in FboVariants => (UnlockedOnce /\ NotLockedWhileDrawn)

\* the plane offsets and strides as the layout of the image prescribes them
\* for a luma stride: V offset, V stride, U offset, U stride
PlaneOffsetV(strideY, height) == strideY * height

PlaneStrideV(strideY) == ((strideY \div 2 + 15) \div 16) * 16

PlaneOffsetU(strideY, height) ==
    PlaneOffsetV(strideY, height) + (PlaneStrideV(strideY) * height) \div 2

PlaneEndU(strideY, height) ==
    PlaneOffsetU(strideY, height) + (PlaneStrideV(strideY) * height) \div 2

\* the buffer indices the fill has written
Written == {i \in DOMAIN ext.mem : ext.mem[i] # Unwritten}

\* the written indices from lo up to, not including, hi
WrittenIn(lo, hi) == {i \in Written : lo <= i /\ i < hi}

\* C28: after the synthetic fill, for every image size and every luma
\* stride >= width, no write has left the buffer, and each plane holds as
\* many written bytes as the fill has writes for it: width*height luma bytes
\* below the V offset, 4*(width/4)*(height/4) V bytes in [V offset, U offset)
\* and (width/2)*(height/2) U bytes in [U offset, U offset + strideU*height/2);
\* so every write lies in its own plane
C28_WritesStayInPlane ==
    Filled =>
        LET offV == PlaneOffsetV(ext.stride, ext.height)
            offU == PlaneOffsetU(ext.stride, ext.height)
            endU == PlaneEndU(ext.stride, ext.height)
        IN  /\ ext.stride >= ext.width
            /\ ~ext.oob
            /\ DOMAIN ext.mem = 0 .. endU - 1
            /\ Cardinality(WrittenIn(0, offV)) = ext.width * ext.height
            /\ \A i \in WrittenIn(0, offV) : i % ext.stride < ext.width
            /\ Cardinality(WrittenIn(offV, offU))
                   = 4 * (ext.width \div 4) * (ext.height \div 4)
            /\ Cardinality(WrittenIn(offU, endU))
                   = (ext.width \div 2) * (ext.height \div 2)

\* a filled 33 x 17 image in a buffer with a luma stride of 48: the V plane
\* starts at 816 with a stride of 32, the U plane at 1088; the last V byte
\* written is in row 7, the last U byte in row 7
C28_OddSizeFilled ==
    /\ Filled
    /\ ext.width = 33 /\ ext.height = 17 /\ ext.stride = 48
    /\ PlaneOffsetV(48, 17) = 816 /\ PlaneStrideV(48) = 32 /\ PlaneOffsetU(48, 17) = 1088
    /\ ext.mem[816 + 7 * 32 + 15] # Unwritten
    /\ ext.mem[1088 + 7 * 32 + 15] # Unwritten
    /\ ext.mem[1088 + 7 * 32 + 16] = Unwritten

\* the vertices a draw call references: those its indices name, or those
\* from first up to first + count - 1
Referenced(c) ==
    IF c.op = "glDrawElements"
    THEN {c.args[3][i] : i \in 1 .. c.args[2]}
    ELSE c.args[2] .. c.args[2] + c.args[3] - 1

\* C29 (as stated): in every variant every draw call references declared
\* vertices only: an indexed draw uses the 34 entries of cubeIndices, all in
\* 0..23; a non-indexed draw references none beyond the 24 vertices of
\* Cube.h; and every attribute pointer names an array of Cube.h with the
\* component count of that array (3 per position, 4 per colour, 2 per
\* texture coordinate)
C29_DrawsWithinMesh ==
    \A i \in DOMAIN calls :
        /\ calls[i].op = "glDrawElements" =>
               /\ calls[i].args[2] = 34
               /\ calls[i].args[3] = cubeIndices
        /\ calls[i].op \in DrawOps =>
               Referenced(calls[i]) \subseteq 0 .. cubeVertexCount - 1
        /\ calls[i].op = "glVertexAttribPointer" =>
               /\ calls[i].args[3] \in DOMAIN cubeArrays
               /\ calls[i].args[2] * cubeVertexCount = cubeArrays[calls[i].args[3]]

====
